---- MODULE Spec2Model ----
(***************************************************************************)
(* marshmallow_dataclass2: the type-graph-to-schema compiler.              *)
(*                                                                         *)
(* Six specifications share this module:                                   *)
(*   Spec        the schema compiler as a call-stack machine: class_schema,*)
(*               field_for_schema, the lru_cache around                    *)
(*               _internal_class_schema, the context stack, the            *)
(*               decorator-attached Schema accessors;                      *)
(*   SpecThreads the same machine with two threads whose requests overlap; *)
(*   SpecField   _field_for_schema's dispatch on the declared type, its    *)
(*               option derivation and the load of one synthesized field,  *)
(*               as pure functions over bounded inputs;                    *)
(*   SpecContainer the wrapper field of a list, tuple or mapping under     *)
(*               each TYPE_MAPPING of a base schema;                       *)
(*   SpecAlias   the field of a NewType alias or a Final type;             *)
(*   SpecLoad    the load override of _base_schema, as a pure function.    *)
(***************************************************************************)
EXTENDS Integers, Sequences, FiniteSets, TLC

(***************************************************************************)
(* Bounds of the model.                                                    *)
(***************************************************************************)
\* Top-level operations (public calls) performed in one behaviour.
MaxCalls == 2

\* Python's recursion limit (sys.getrecursionlimit(), 1000 by default), scaled:
\* a call that would make the stack deeper raises RecursionError.
MaxDepth == 12

\* maxsize of the lru_cache around _internal_class_schema.  The source sets
\* 1024 (src/marshmallow_dataclass2/__init__.py:105); scaled so that a full
\* cache and an eviction are reachable.
MAX_CLASS_SCHEMA_CACHE_SIZE == 2

(***************************************************************************)
(* Type descriptors.  Every term has the same shape: a kind, a name and a  *)
(* sequence of argument terms.                                             *)
(*   prim   a type of marshmallow's TYPE_MAPPING (int, str)                *)
(*   var    a typing.TypeVar                                               *)
(*   cls    a class object (a dataclass or a class that is not one yet)    *)
(*   alias  a generic alias G[args] of a class                             *)
(*   list   List[a1];  opt   Optional[a1]                                  *)
(***************************************************************************)
Prim(n) == [k |-> "prim", n |-> n, a |-> <<>>]
Var(n) == [k |-> "var", n |-> n, a |-> <<>>]
Cls(n) == [k |-> "cls", n |-> n, a |-> <<>>]
\* An annotation written as a string: a forward reference to a name.
Fwd(n) == [k |-> "fwd", n |-> n, a |-> <<>>]
Alias(n, args) == [k |-> "alias", n |-> n, a |-> args]
ListOf(t) == [k |-> "list", n |-> "", a |-> <<t>>]
Opt(t) == [k |-> "opt", n |-> "", a |-> <<t>>]

TInt == Prim("int")
TStr == Prim("str")

\* A dataclasses.Field as the compiler reads it: name, declared type, init flag.
Fld(name, typ, init) == [name |-> name, typ |-> typ, init |-> init]

\* The default of a TypeVar (typing.TypeVar(..., default=...)), <<>> when none.
VarDefault(v) ==
  CASE v = "Td" -> <<TStr>>
    [] v = "Ud" -> <<Var("Td")>>
    [] OTHER -> <<>>

(***************************************************************************)
(* The declared classes the requests range over.  deco is the Schema       *)
(* attribute the decorator attached at import time: "none" (a plain        *)
(* dataclasses.dataclass), "lazy" (lazy_class_attribute, a non-generic     *)
(* decorated class) or "generic" (LazyGenericSchema).                      *)
(***************************************************************************)
ClassNames ==
  {"A", "D", "G", "GS", "LG", "Pair", "U", "B1", "B2", "B3", "Df",
   "N", "WN", "M", "WM", "X", "WX", "DG", "SubG", "H", "MX", "FR"}

Plain(fields) ==
  [dataclass |-> TRUE, generic |-> FALSE, params |-> <<>>, bases |-> <<>>,
   fields |-> fields, includeNonInit |-> FALSE, deco |-> "none",
   decoBase |-> "None", convertible |-> TRUE]

ClassDef(n) ==
  CASE n = "A" ->    \* class_schema doctests Person and C (init=False field)
         Plain(<<Fld("name", TStr, TRUE), Fld("friends", ListOf(Cls("A")), TRUE),
                 Fld("unimportant", TInt, FALSE)>>)
    [] n = "D" ->    \* decorated, self-referential, Meta.include_non_init = True
         [Plain(<<Fld("name", TStr, TRUE), Fld("parent", Opt(Cls("D")), TRUE),
                  Fld("unimportant", TInt, FALSE)>>)
            EXCEPT !.deco = "lazy", !.includeNonInit = TRUE]
    [] n = "G" ->    \* test_generic_dataclass SimpleGeneric
         [Plain(<<Fld("data", Var("T"), TRUE)>>)
            EXCEPT !.generic = TRUE, !.params = <<"T">>]
    [] n = "GS" ->   \* a generic dataclass referring to its own alias GS[int]
         [Plain(<<Fld("data", Var("T"), TRUE),
                  Fld("next", Opt(Alias("GS", <<TInt>>)), TRUE)>>)
            EXCEPT !.generic = TRUE, !.params = <<"T">>]
    [] n = "LG" ->   \* the same, decorated: LazyGenericSchema is attached
         [Plain(<<Fld("data", Var("T"), TRUE),
                  Fld("next", Opt(Alias("LG", <<TInt>>)), TRUE)>>)
            EXCEPT !.generic = TRUE, !.params = <<"T">>, !.deco = "generic"]
    [] n = "Pair" -> \* test_generic_dataclass_repeated_fields Nested
         Plain(<<Fld("x", Alias("G", <<TInt>>), TRUE),
                 Fld("y", Alias("G", <<TStr>>), TRUE),
                 Fld("z", Alias("G", <<TInt>>), TRUE)>>)
    [] n = "U" ->    \* test_unbound_type_var Base: a non-generic class, answer: T
         Plain(<<Fld("answer", Var("T"), TRUE)>>)
    [] n = "B1" ->   \* test_bound_generic_base Base1
         [Plain(<<Fld("answer", Var("T"), TRUE)>>)
            EXCEPT !.generic = TRUE, !.params = <<"T">>]
    [] n = "B2" ->   \* test_generic_bases TestClass(Base1[T])
         [Plain(<<>>)
            EXCEPT !.generic = TRUE, !.params = <<"T">>,
                   !.bases = <<Alias("B1", <<Var("T")>>)>>]
    [] n = "B3" ->   \* test_bound_generic_base TestClass(Base1[int])
         [Plain(<<>>)
            EXCEPT !.generic = TRUE, !.bases = <<Alias("B1", <<TInt>>)>>]
    [] n = "Df" ->   \* test_generic_default_recursion DefaultGenerics
         [Plain(<<Fld("a", Var("Td"), TRUE), Fld("b", Var("Ud"), TRUE)>>)
            EXCEPT !.generic = TRUE, !.params = <<"Td", "Ud">>]
    [] n = "N" ->    \* not a dataclass; annotated answer: T
         [Plain(<<Fld("answer", Var("T"), TRUE)>>) EXCEPT !.dataclass = FALSE]
    [] n = "WN" -> Plain(<<Fld("n", Cls("N"), TRUE)>>)
    [] n = "M" ->    \* not a dataclass; dataclasses.dataclass converts it
         [Plain(<<Fld("v", TInt, TRUE)>>) EXCEPT !.dataclass = FALSE]
    [] n = "WM" -> Plain(<<Fld("m", Cls("M"), TRUE)>>)
    [] n = "X" ->    \* not a dataclass; dataclasses.dataclass raises on it
         [Plain(<<>>) EXCEPT !.dataclass = FALSE, !.convertible = FALSE]
    [] n = "WX" -> Plain(<<Fld("x", Cls("X"), TRUE)>>)
    [] n = "FR" ->   \* a field annotated with the string "Target"
         Plain(<<Fld("ref", Fwd("Target"), TRUE)>>)
    [] n = "MX" ->   \* a record nesting a class that converts, then one that does not
         Plain(<<Fld("m", Cls("M"), TRUE), Fld("x", Cls("X"), TRUE)>>)
    [] n = "DG" ->   \* test_generic_dataclass_cached SimpleGeneric: decorated
         [Plain(<<Fld("data", Var("T"), TRUE)>>)
            EXCEPT !.generic = TRUE, !.params = <<"T">>, !.deco = "generic"]
    [] n = "SubG" -> \* a dataclasses.dataclass subclass SubG(DG[T]): not decorated
         [Plain(<<Fld("extra", TInt, TRUE)>>)
            EXCEPT !.generic = TRUE, !.params = <<"T">>,
                   !.bases = <<Alias("DG", <<Var("T")>>)>>]
    [] n = "H" ->    \* a record nesting both
         Plain(<<Fld("a", Alias("DG", <<TInt>>), TRUE),
                 Fld("b", Alias("SubG", <<TInt>>), TRUE)>>)
    [] OTHER ->      \* anything else (a TypeVar object): no class at all
         [Plain(<<>>) EXCEPT !.dataclass = FALSE, !.convertible = FALSE]

\* The namespaces a caller can pass to class_schema as globalns and localns:
\* the name Target stands for int in one and for str in the other.  The
\* first is also the namespace of the frame the classes are declared in.
Namespaces == {"L1", "L2"}
DefaultNamespace == "L1"
Namespace(ns) == IF ns = "L2" THEN [Target |-> Prim("str")] ELSE [Target |-> Prim("int")]

\* typing.get_type_hints(obj, globalns, localns), lines 1112-1137: a string
\* annotation becomes what its name stands for in the namespaces.
RECURSIVE ResolveType(_, _)
ResolveType(typ, ns) ==
  IF typ.k = "fwd" THEN Namespace(ns)[typ.n]
  ELSE [typ EXCEPT !.a = [i \in DOMAIN typ.a |-> ResolveType(typ.a[i], ns)]]

ResolveHints(fields, ns) ==
  [i \in DOMAIN fields |-> [fields[i] EXCEPT !.typ = ResolveType(fields[i].typ, ns)]]

\* base_schema arguments: None or a user's marshmallow.Schema subclass.
BaseSchemas == {"None", "Base"}

IsClassLike(t) == t.k \in {"cls", "alias"}

\* getattr(clazz, "__name__", repr(clazz)): an alias answers with its origin's name.
ClassNameOf(t) == t.n

RECURSIVE HasVar(_)
HasVar(t) ==
  \/ t.k = "var"
  \/ \E i \in DOMAIN t.a : HasVar(t.a[i])


TypeVars == {"T", "Td", "Ud"}

RECURSIVE Subst(_, _)
\* Replace every variable of t that bind maps by its binding.
Subst(t, bind) ==
  IF t.k = "var"
    THEN IF t.n \in DOMAIN bind THEN bind[t.n] ELSE t
    ELSE [t EXCEPT !.a = [i \in DOMAIN t.a |-> Subst(t.a[i], bind)]]

\* The binding of class n's type parameters by the arguments of an alias n[args];
\* a parameter without an argument stays unbound.
BindArgs(n, args) ==
  LET ps == ClassDef(n).params
      m == IF Len(ps) < Len(args) THEN Len(ps) ELSE Len(args)
  IN [v \in {ps[i] : i \in 1..m} |-> args[CHOOSE i \in 1..m : ps[i] = v]]

\* Dataclass inheritance: an overriding field keeps the inherited position and
\* takes the most specific declaration; new fields follow.
Override(inh, own) ==
  LET repl == [i \in DOMAIN inh |->
                 IF \E j \in DOMAIN own : own[j].name = inh[i].name
                   THEN own[CHOOSE j \in DOMAIN own : own[j].name = inh[i].name]
                   ELSE inh[i]]
      IsNew(f) == \A i \in DOMAIN inh : inh[i].name # f.name
  IN repl \o SelectSeq(own, IsNew)

RECURSIVE ChainFields(_, _, _)
\* The fields of class n and of its generic ancestors under the binding bind;
\* an ancestor's arguments are substituted before they bind its parameters.
ChainFields(n, bind, fuel) ==
  LET d == ClassDef(n)
      inh == IF d.bases = <<>> \/ fuel = 0
               THEN <<>>
               ELSE LET b == d.bases[1]
                    IN ChainFields(b.n,
                         BindArgs(b.n, [i \in DOMAIN b.a |-> Subst(b.a[i], bind)]),
                         fuel - 1)
      own == [i \in DOMAIN d.fields |->
                [d.fields[i] EXCEPT !.typ = Subst(d.fields[i].typ, bind)]]
  IN Override(inh, own)

RECURSIVE ApplyDefaults(_, _, _)
\* A variable the chain left unbound takes its declared default, itself
\* resolved through the same substitution; runaway recursion leaves it unbound.
ApplyDefaults(t, bind, fuel) ==
  IF t.k = "var"
    THEN IF VarDefault(t.n) # <<>> /\ fuel > 0
           THEN ApplyDefaults(Subst(VarDefault(t.n)[1], bind), bind, fuel - 1)
           ELSE t
    ELSE [t EXCEPT !.a = [i \in DOMAIN t.a |-> ApplyDefaults(t.a[i], bind, fuel)]]

\* generic_resolver.get_generic_dataclass_fields: the resolved fields of a
\* generic class or alias, or UnboundTypeVarError.
get_generic_dataclass_fields(t) ==
  LET bind == BindArgs(t.n, t.a)
      fs == ChainFields(t.n, bind, Cardinality(ClassNames))
      res == [i \in DOMAIN fs |->
                [fs[i] EXCEPT !.typ = ApplyDefaults(fs[i].typ, bind, Cardinality(TypeVars))]]
  IN IF \E i \in DOMAIN res : HasVar(res[i].typ)
       THEN [res |-> "UnboundTypeVarError", fields |-> <<>>]
       ELSE [res |-> "ok", fields |-> res]

\* typing_inspect.is_generic_type: a subclass of Generic, or a generic alias.
is_generic_type(t) ==
  \/ t.k = "alias"
  \/ t.k = "cls" /\ ClassDef(t.n).generic

\* dataclasses.is_dataclass on a class object (an alias is not one).
is_dataclass(t, isdc) == t.k = "cls" /\ t.n \in ClassNames /\ isdc[t.n]

is_generic_alias_of_dataclass(t, isdc) ==
  t.k = "alias" /\ t.n \in ClassNames /\ isdc[t.n]

\* _dataclass_fields: dataclasses.fields for a non-generic class (TypeError when
\* it is not a dataclass), the generic resolver otherwise.
dataclass_fields(t, isdc) ==
  IF ~is_generic_type(t)
    THEN IF is_dataclass(t, isdc)
           THEN [res |-> "ok", fields |-> ClassDef(t.n).fields]
           ELSE [res |-> "TypeError", fields |-> <<>>]
    ELSE get_generic_dataclass_fields(t)

FieldIncludedInitOnly(f, include_non_init) == f.init

\* The filter of the attributes generator: field.init or include_non_init.
FieldIncluded(f, include_non_init) == f.init \/ include_non_init

IsTypeVarNever(t) == FALSE

\* isinstance(typ, TypeVar)
IsTypeVar(t) == t.k = "var"

RECURSIVE Leaves(_)
RECURSIVE LeavesOfArgs(_, _)
\* The types _field_for_schema reaches, in call order, that are not settled by
\* TYPE_MAPPING: Optional and List recurse into their argument; a TypeVar, a
\* class or an alias of a class is a leaf.
Leaves(t) ==
  CASE t.k = "prim" -> <<>>
    [] t.k \in {"var", "cls", "alias"} -> <<t>>
    [] OTHER -> LeavesOfArgs(t.a, 1)

LeavesOfArgs(args, i) ==
  IF i > Len(args) THEN <<>> ELSE Leaves(args[i]) \o LeavesOfArgs(args, i + 1)


(***************************************************************************)
(* The state of the compiler.                                              *)
(***************************************************************************)
VARIABLES
  stack,        \* per thread: the call stack, innermost frame last
  ctx,          \* per thread: _schema_ctx_stack.stack, the _SchemaContext objects
  ret,          \* per thread: the value or exception the last callee handed back
  cache,        \* the lru_cache of _internal_class_schema, least recently used first
  heap,         \* every schema class built so far; a schema's identity is its index
  schemaAttr,   \* per class: the Schema attribute the decorator attached
  memo,         \* per class: LazyGenericSchema.__resolved_generic_schemas
  isDataclass,  \* per class: whether dataclasses.dataclass has been applied
  out,          \* per thread: the public call in progress or last finished
  returned,     \* the (key, schema) pairs class_schema handed to its callers
  calls,        \* public calls made so far
  fin, fout,    \* SpecField: the input and the result of a field synthesis
  lin, lout     \* SpecLoad: the input and the result of a load

compilerVars ==
  <<stack, ctx, ret, cache, heap, schemaAttr, memo, isDataclass, out, returned, calls>>
pureVars == <<fin, fout, lin, lout>>
vars == <<compilerVars, pureVars>>

Threads == {1, 2}
MainThread == {1}

LocalStackShared(t) == 1

\* _LocalStack is a threading.local: the stack attribute a thread reaches
\* through _schema_ctx_stack is the one created for that thread.
LocalStack(t) == t

NoRet == [kind |-> "none", id |-> 0, exc |-> ""]
ValRet(i) == [kind |-> "val", id |-> i, exc |-> ""]
FieldRet == [kind |-> "field", id |-> 0, exc |-> ""]
ExcRet(e) == [kind |-> "exc", id |-> 0, exc |-> e]

Frame(op, clazz, base, pc, cont) ==
  [op |-> op, clazz |-> clazz, base |-> base, pc |-> pc, cont |-> cont,
   fields |-> <<>>, fi |-> 1, li |-> 1, refs |-> <<>>, attrs |-> <<>>, ns |-> ""]

\* What a Nested field refers to: a schema class, or a class name resolved later.
SchemaRef(i) == [k |-> "schema", name |-> "", id |-> i]
NameRef(n) == [k |-> "name", name |-> n, id |-> 0]

Top(t) == stack[t][Len(stack[t])]
Front(s) == SubSeq(s, 1, Len(s) - 1)
SetTop(s, f) == [s EXCEPT ![Len(s)] = f]

\* The Schema attribute as the decorator leaves it (add_schema): none, the
\* lazy_class_attribute of a non-generic class, or a LazyGenericSchema.
\* _SchemaContext(): a context with no seen classes; by is the thread that
\* constructs and pushes it.
NewContextFrameNamespace(t) == [seen |-> {}, by |-> t, ns |-> DefaultNamespace]

\* _SchemaContext(globalns, localns), lines 540-548: a context with no seen
\* classes and the namespaces of the call: those the caller of class_schema
\* passed, or, for a call made by an accessor or by field_for_schema, those
\* of the frame of the class; by is the thread that constructs and pushes it.
NewContext(t) ==
  [seen |-> {}, by |-> t,
   ns |-> IF Len(stack[t]) = 1 THEN out[t].ns ELSE DefaultNamespace]

ContextEnterNoPush(s, t) == s

\* _SchemaContext.__enter__ (lines 551-553): the with statement pushes the
\* new context on the stack of the thread.
ContextEnter(s, t) == Append(s, NewContext(t))

\* _schema_ctx_stack.top
TopContext(t) == ctx[LocalStack(t)][Len(ctx[LocalStack(t)])]

ContextExitOnReturn(s, r) == IF r.kind = "exc" THEN s ELSE SubSeq(s, 1, Len(s) - 1)

\* _SchemaContext.__exit__: the with statement runs it when its body returns
\* and when it raises (r is the body's outcome), and it pops the stack.
ContextExit(s, r) == SubSeq(s, 1, Len(s) - 1)

AttrOf(kind, base) == [kind |-> kind, st |-> "uncalled", id |-> 0, base |-> base]

CacheKeyOriginOnly(clazz, base) == [clazz |-> Cls(clazz.n), base |-> base]

CacheKeyClassOnly(clazz, base) == [clazz |-> clazz, base |-> "None"]

\* functools._make_key for the positional call (clazz, base_schema).
CacheKey(clazz, base) == [clazz |-> clazz, base |-> base]

CacheIndex(c, key) ==
  IF \E i \in DOMAIN c : c[i].key = key
    THEN CHOOSE i \in DOMAIN c : c[i].key = key
    ELSE 0

\* A cache hit makes the entry the most recently used.
LruTouch(c, i) == SubSeq(c, 1, i - 1) \o SubSeq(c, i + 1, Len(c)) \o <<c[i]>>

LruStoreNoEvict(c, key, id) ==
  IF CacheIndex(c, key) # 0 THEN c ELSE Append(c, [key |-> key, id |-> id])

\* The store after a miss: nothing when the key was added during the call,
\* else the new entry, in place of the least recently used one when full.
LruStore(c, key, id) ==
  IF CacheIndex(c, key) # 0
    THEN c
    ELSE IF Len(c) >= MAX_CLASS_SCHEMA_CACHE_SIZE
           THEN Append(Tail(c), [key |-> key, id |-> id])
           ELSE Append(c, [key |-> key, id |-> id])

LruResultEvenIfRaised(c, key, r) == LruStore(c, key, r.id)

\* The lru_cache wrapper after the wrapped call came back with r: it stores
\* a result and stores nothing when the call raised.
LruResult(c, key, r) == IF r.kind = "val" THEN LruStore(c, key, r.id) ELSE c

MemoIndex(m, args) ==
  IF \E e \in m : e.args = args THEN (CHOOSE e \in m : e.args = args).id ELSE 0

CheckDecoratedTypeNever(t) == "ok"

\* _check_decorated_type: only a class passes; a generic alias is no class.
CheckDecoratedType(t) == IF t.k = "cls" THEN "ok" ELSE "TypeError"

\* The state after the module is imported and the classes are declared.
CompilerInit ==
  /\ stack = [t \in Threads |-> <<>>]
  /\ ctx = [t \in Threads |-> <<>>]
  /\ ret = [t \in Threads |-> NoRet]
  /\ cache = <<>>
  /\ heap = <<>>
  /\ schemaAttr = [n \in ClassNames |-> AttrOf(ClassDef(n).deco, ClassDef(n).decoBase)]
  /\ memo = [n \in ClassNames |-> {}]
  /\ isDataclass = [n \in ClassNames |-> ClassDef(n).dataclass]
  /\ out = [t \in Threads |->
             [op |-> "none", clazz |-> Cls(""), base |-> "None",
              kind |-> "none", id |-> 0, exc |-> "", name |-> "", before |-> <<>>,
              ns |-> DefaultNamespace]]
  /\ returned = {}
  /\ calls = 0

\* The pure functions are not in use while the compiler runs.
NoFieldInput ==
  [typ |-> Prim(""), default |-> "missing", data |-> "omitted",
   tm |-> [key \in {} |-> ""],
   md |-> [required |-> "unset", allow_none |-> "unset", load_default |-> "unset",
           dump_default |-> "unset", marshmallow_field |-> "unset",
           validate |-> [form |-> "unset", vs |-> <<>>], description |-> "unset"]]
NoField ==
  [kind |-> "none", typ |-> "", required |-> FALSE, allow_none |-> FALSE,
   load_default |-> "unset", dump_default |-> "unset", validate |-> <<>>,
   description |-> "unset"]
NoFieldOutput == [stage |-> "idle", field |-> NoField, result |-> ""]
NoLoadInput ==
  [selfMany |-> FALSE, many |-> "None", shape |-> "one", items |-> <<>>]
NoLoadOutput == [stage |-> "idle", kind |-> "", loaded |-> <<>>, recs |-> <<>>]

Init ==
  /\ CompilerInit
  /\ fin = NoFieldInput /\ fout = NoFieldOutput
  /\ lin = NoLoadInput /\ lout = NoLoadOutput


(***************************************************************************)
(* The public calls the model makes.                                       *)
(***************************************************************************)
Rq(clazz, base) == [clazz |-> clazz, base |-> base, ns |-> DefaultNamespace]

Requests ==
  {Rq(Cls(n), "None") :
     n \in {"A", "D", "Pair", "U", "B1", "B3", "Df", "WN", "WM", "WX", "M", "X", "H",
            "MX"}}
  \cup {Rq(Alias("G", <<TInt>>), "None"), Rq(Alias("G", <<TStr>>), "None"),
        Rq(Alias("GS", <<TInt>>), "None"), Rq(Alias("LG", <<TInt>>), "None"),
        Rq(Alias("B2", <<TInt>>), "None"), Rq(Alias("Df", <<TInt>>), "None"),
        Rq(Cls("A"), "Base"), Rq(Cls("D"), "Base"), Rq(Cls("H"), "Base"),
        Rq(Cls("FR"), "None"),
        [Rq(Cls("FR"), "None") EXCEPT !.ns = "L2"]}

\* Targets of the decorators dataclass(...) and add_schema(...).
DecorOps ==
  {[how |-> "dataclass", target |-> Alias("G", <<TInt>>)],
   [how |-> "add_schema", target |-> Alias("G", <<TInt>>)],
   [how |-> "add_schema", target |-> Alias("LG", <<TInt>>)],
   [how |-> "dataclass", target |-> Cls("M")],
   [how |-> "add_schema", target |-> Cls("G")]}

\* Expressions X.Schema() on a class or an alias.
AccessorTargets ==
  {Cls("LG"), Alias("LG", <<TInt>>), Cls("G"), Alias("G", <<TInt>>)}

\* Types handed to field_for_schema: a base type, a TypeVar, a dataclass and
\* a class that cannot be made into one.
FieldTargets == {TInt, Var("T"), Cls("A"), Cls("X")}

\* The record of a public call that has begun; before keeps the cache as it
\* was when the call began.
Running(op, clazz, base) ==
  [op |-> op, clazz |-> clazz, base |-> base,
   kind |-> "none", id |-> 0, exc |-> "", name |-> "", before |-> cache,
   ns |-> DefaultNamespace]

\* The innermost frame of thread t ends with result r: its caller takes r, or,
\* when it was the public call itself, the caller of the library does.
Finish(t, r) ==
  /\ stack' = [stack EXCEPT ![t] = Front(stack[t])]
  /\ IF Len(stack[t]) = 1
       THEN /\ ret' = [ret EXCEPT ![t] = NoRet]
            /\ out' = [out EXCEPT ![t] =
                         [out[t] EXCEPT !.kind = r.kind, !.id = r.id, !.exc = r.exc]]
       ELSE /\ ret' = [ret EXCEPT ![t] = r]
            /\ UNCHANGED out

\* Thread t's innermost frame becomes f and calls g: the call raises
\* RecursionError when the stack is as deep as the interpreter allows.
Call(t, f, g) ==
  IF Len(stack[t]) >= MaxDepth
    THEN /\ stack' = [stack EXCEPT ![t] = SetTop(stack[t], f)]
         /\ ret' = [ret EXCEPT ![t] = ExcRet("RecursionError")]
    ELSE /\ stack' = [stack EXCEPT ![t] = Append(SetTop(stack[t], f), g)]
         /\ ret' = [ret EXCEPT ![t] = NoRet]

\* class_schema(clazz, base_schema) called by the user.
CallClassSchema(t, rq) ==
  /\ stack[t] = <<>>
  /\ calls < MaxCalls
  /\ calls' = calls + 1
  /\ stack' = [stack EXCEPT ![t] = <<Frame("cs", rq.clazz, rq.base, "start", "top")>>]
  /\ out' = [out EXCEPT ![t] =
               [Running("class_schema", rq.clazz, rq.base) EXCEPT !.ns = rq.ns]]
  /\ UNCHANGED <<ctx, ret, cache, heap, schemaAttr, memo, isDataclass, returned>>
  /\ UNCHANGED pureVars

\* The user reads n.Schema of a class decorated with a lazy_class_attribute:
\* the first read computes class_schema(n, base_schema, frame) and stores it
\* on the class; a read while it is being computed (or after it failed) gets
\* the forward value, the class name.
AccessSchema(t, n) ==
  /\ stack[t] = <<>>
  /\ calls < MaxCalls
  /\ schemaAttr[n].kind = "lazy"
  /\ calls' = calls + 1
  /\ CASE schemaAttr[n].st = "uncalled" ->
            /\ schemaAttr' = [schemaAttr EXCEPT ![n].st = "called"]
            /\ stack' = [stack EXCEPT ![t] =
                           <<Frame("cs", Cls(n), schemaAttr[n].base, "start", "lazy")>>]
            /\ out' = [out EXCEPT ![t] = Running("Schema", Cls(n), schemaAttr[n].base)]
       [] schemaAttr[n].st = "called" ->
            /\ out' = [out EXCEPT ![t] =
                         [Running("Schema", Cls(n), schemaAttr[n].base)
                            EXCEPT !.kind = "name", !.name = n]]
            /\ UNCHANGED <<schemaAttr, stack>>
       [] OTHER ->
            /\ out' = [out EXCEPT ![t] =
                         [Running("Schema", Cls(n), schemaAttr[n].base)
                            EXCEPT !.kind = "val", !.id = schemaAttr[n].id]]
            /\ UNCHANGED <<schemaAttr, stack>>
  /\ UNCHANGED <<ctx, ret, cache, heap, memo, isDataclass, returned>>
  /\ UNCHANGED pureVars

\* X.Schema() where the Schema attribute is a LazyGenericSchema: __get__ hands
\* out the accessor itself and __call__ raises TypeError.
GenericSchemaCall(t, x) ==
  /\ stack[t] = <<>>
  /\ calls < MaxCalls
  /\ schemaAttr[x.n].kind = "generic"
  /\ calls' = calls + 1
  /\ out' = [out EXCEPT ![t] =
               [Running("SchemaCall", x, schemaAttr[x.n].base)
                  EXCEPT !.kind = "exc", !.exc = "TypeError"]]
  /\ UNCHANGED <<stack, ctx, ret, cache, heap, schemaAttr, memo, isDataclass, returned>>
  /\ UNCHANGED pureVars

\* dataclass(x) or add_schema(x): _check_decorated_type, then (dataclass only)
\* dataclasses.dataclass, then the Schema attribute is attached: a
\* LazyGenericSchema for a generic type, a lazy_class_attribute otherwise.
Decorate(t, d) ==
  LET x == d.target
      checked == CheckDecoratedType(x)
      converts == d.how = "dataclass" /\ ~isDataclass[x.n]
      fails == converts /\ ~ClassDef(x.n).convertible
  IN
  /\ stack[t] = <<>>
  /\ calls < MaxCalls
  /\ calls' = calls + 1
  /\ IF checked # "ok"
       THEN /\ out' = [out EXCEPT ![t] =
                         [Running(d.how, x, "None") EXCEPT !.kind = "exc", !.exc = checked]]
            /\ UNCHANGED <<schemaAttr, memo, isDataclass>>
       ELSE IF fails
         THEN /\ out' = [out EXCEPT ![t] =
                           [Running(d.how, x, "None")
                              EXCEPT !.kind = "exc", !.exc = "ValueError"]]
              /\ UNCHANGED <<schemaAttr, memo, isDataclass>>
         ELSE /\ out' = [out EXCEPT ![t] = [Running(d.how, x, "None") EXCEPT !.kind = "ok"]]
              /\ isDataclass' = IF converts
                                  THEN [isDataclass EXCEPT ![x.n] = TRUE]
                                  ELSE isDataclass
              /\ schemaAttr' = [schemaAttr EXCEPT ![x.n] =
                                  AttrOf(IF is_generic_type(x) THEN "generic" ELSE "lazy",
                                         "None")]
              /\ memo' = [memo EXCEPT ![x.n] = {}]
  /\ UNCHANGED <<stack, ctx, ret, cache, heap, returned>>
  /\ UNCHANGED pureVars


RECURSIVE SchemaOwner(_, _)
\* The class in whose namespace the attribute lookup n.Schema finds the
\* attribute: n itself, or else the first base class that has one (the
\* classes of the table have at most one base).  A subclass that is not
\* decorated itself inherits the LazyGenericSchema object of its base.
SchemaOwner(n, attrs) ==
  IF attrs[n].kind # "none" \/ ClassDef(n).bases = <<>>
    THEN n
    ELSE SchemaOwner(ClassDef(n).bases[1].n, attrs)

\* The Schema attribute getattr(typ, "Schema", None) finds: an alias forwards
\* the lookup to its origin class; anything that is no class has none.
SchemaAttrOf(t) ==
  IF t.n \in ClassNames
    THEN schemaAttr[SchemaOwner(t.n, schemaAttr)]
    ELSE AttrOf("none", "None")

\* The memo (__resolved_generic_schemas) of the LazyGenericSchema object
\* that typ.Schema is: the object belongs to the class that owns it.
MemoOf(t) == memo[SchemaOwner(t.n, schemaAttr)]


(***************************************************************************)
(* class_schema: lines 527-535.                                            *)
(***************************************************************************)
\* Convert a class that is not a dataclass, push a fresh _SchemaContext and
\* call _internal_class_schema.
CsStart(t) ==
  LET f == Top(t)
      convert == /\ ~is_dataclass(f.clazz, isDataclass)
                 /\ ~is_generic_alias_of_dataclass(f.clazz, isDataclass)
  IN
  /\ stack[t] # <<>>
  /\ f.op = "cs" /\ f.pc = "start"
  /\ IF convert /\ ~ClassDef(f.clazz.n).convertible
       THEN \* dataclasses.dataclass(clazz) raises, outside any try
            /\ Finish(t, ExcRet("ValueError"))
            /\ UNCHANGED <<ctx, isDataclass>>
       ELSE /\ isDataclass' = IF convert
                                THEN [isDataclass EXCEPT ![f.clazz.n] = TRUE]
                                ELSE isDataclass
            /\ ctx' = [ctx EXCEPT ![LocalStack(t)] = ContextEnter(@, t)]
            /\ Call(t, [f EXCEPT !.pc = "wait"],
                    Frame("ics", f.clazz, f.base, "lookup", "call"))
            /\ UNCHANGED out
  /\ UNCHANGED <<cache, heap, schemaAttr, memo, returned, calls>>
  /\ UNCHANGED pureVars

\* _internal_class_schema came back: the context is popped (__exit__), and the
\* caller of class_schema goes on: lazy_class_attribute stores the schema on
\* the class, LazyGenericSchema.get_schema stores it under the alias's arguments.
CsReturn(t) ==
  LET f == Top(t)
      r == ret[t]
  IN
  /\ stack[t] # <<>>
  /\ f.op = "cs" /\ f.pc = "wait" /\ r.kind # "none"
  /\ ctx' = [ctx EXCEPT ![LocalStack(t)] = ContextExit(@, r)]
  /\ schemaAttr' = IF f.cont = "lazy" /\ r.kind = "val"
                     THEN [schemaAttr EXCEPT ![f.clazz.n].st = "resolved",
                                             ![f.clazz.n].id = r.id]
                     ELSE schemaAttr
  /\ memo' = IF f.cont = "gs" /\ r.kind = "val"
               THEN [memo EXCEPT ![SchemaOwner(f.clazz.n, schemaAttr)] =
                       {e \in MemoOf(f.clazz) : e.args # f.clazz.a}
                         \cup {[args |-> f.clazz.a, id |-> r.id]}]
               ELSE memo
  /\ returned' = IF f.cont = "top" /\ r.kind = "val"
                   THEN returned \cup {[clazz |-> f.clazz, base |-> f.base, id |-> r.id,
                                        ns |-> out[t].ns]}
                   ELSE returned
  /\ Finish(t, r)
  /\ UNCHANGED <<cache, heap, isDataclass, calls>>
  /\ UNCHANGED pureVars

(***************************************************************************)
(* field_for_schema: lines 885-914.                                        *)
(***************************************************************************)
\* field_for_schema(typ) called by the user.
CallFieldForSchema(t, typ) ==
  /\ stack[t] = <<>>
  /\ calls < MaxCalls
  /\ calls' = calls + 1
  /\ stack' = [stack EXCEPT ![t] = <<Frame("ffs", typ, "None", "start", "top")>>]
  /\ out' = [out EXCEPT ![t] = Running("field_for_schema", typ, "None")]
  /\ UNCHANGED <<ctx, ret, cache, heap, schemaAttr, memo, isDataclass, returned>>
  /\ UNCHANGED pureVars

\* Push a fresh _SchemaContext and call _field_for_schema(typ): the frame
\* "fs" synthesizes the one field of type typ.
FfsStart(t) ==
  LET f == Top(t) IN
  /\ stack[t] # <<>>
  /\ f.op = "ffs" /\ f.pc = "start"
  /\ ctx' = [ctx EXCEPT ![LocalStack(t)] = ContextEnter(@, t)]
  /\ Call(t, [f EXCEPT !.pc = "wait"],
          [Frame("fs", f.clazz, f.base, "fields", "call")
             EXCEPT !.fields = <<Fld("", f.clazz, TRUE)>>])
  /\ UNCHANGED <<out, cache, heap, schemaAttr, memo, isDataclass, returned, calls>>
  /\ UNCHANGED pureVars

\* _field_for_schema came back: the context is popped (__exit__) and the
\* field or the exception is the call's outcome.
FfsReturn(t) ==
  LET f == Top(t)
      r == ret[t]
  IN
  /\ stack[t] # <<>>
  /\ f.op = "ffs" /\ f.pc = "wait" /\ r.kind # "none"
  /\ ctx' = [ctx EXCEPT ![LocalStack(t)] = ContextExit(@, r)]
  /\ Finish(t, r)
  /\ UNCHANGED <<cache, heap, schemaAttr, memo, isDataclass, returned, calls>>
  /\ UNCHANGED pureVars

(***************************************************************************)
(* _internal_class_schema under functools.lru_cache: lines 581-657.        *)
(***************************************************************************)
\* The cache lookup of the wrapper.
IcsLookup(t) ==
  LET f == Top(t)
      i == CacheIndex(cache, CacheKey(f.clazz, f.base))
  IN
  /\ stack[t] # <<>>
  /\ f.op = "ics" /\ f.pc = "lookup"
  /\ IF i # 0
       THEN /\ cache' = LruTouch(cache, i)
            /\ Finish(t, ValRet(cache[i].id))
       ELSE /\ stack' = [stack EXCEPT ![t] = SetTop(stack[t], [f EXCEPT !.pc = "reg"])]
            /\ UNCHANGED <<cache, ret, out>>
  /\ UNCHANGED <<ctx, heap, schemaAttr, memo, isDataclass, returned, calls>>
  /\ UNCHANGED pureVars

\* Lines 586-598 and 631: read the top context, register the class in its
\* seen_classes, reflect the fields and keep those the schema includes.
IcsRegister(t) ==
  LET f == Top(t)
      got == dataclass_fields(f.clazz, isDataclass)
      inc == ClassDef(f.clazz.n).includeNonInit
      keep(fl) == FieldIncluded(fl, inc)
  IN
  /\ stack[t] # <<>>
  /\ f.op = "ics" /\ f.pc = "reg"
  /\ IF ctx[LocalStack(t)] = <<>>
       THEN \* _schema_ctx_stack.top on an empty stack
            /\ Finish(t, ExcRet("IndexError"))
            /\ UNCHANGED ctx
       ELSE /\ ctx' = [ctx EXCEPT ![LocalStack(t)][Len(ctx[LocalStack(t)])].seen =
                                   @ \cup {f.clazz}]
            /\ CASE got.res = "ok" ->
                      /\ stack' = [stack EXCEPT ![t] = SetTop(stack[t],
                                     [f EXCEPT !.pc = "fields",
                                               !.ns = TopContext(t).ns,
                                               !.fields =
                                                 ResolveHints(SelectSeq(got.fields, keep),
                                                              TopContext(t).ns)])]
                      /\ UNCHANGED <<ret, out>>
                 [] got.res = "TypeError" ->
                      /\ stack' = [stack EXCEPT ![t] =
                                     SetTop(stack[t], [f EXCEPT !.pc = "retry"])]
                      /\ UNCHANGED <<ret, out>>
                 [] OTHER -> Finish(t, ExcRet(got.res))
  /\ UNCHANGED <<cache, heap, schemaAttr, memo, isDataclass, returned, calls>>
  /\ UNCHANGED pureVars

RetryErrorAllToTypeError(exc) == "TypeError"

\* The handlers of the conversion retry (lines 616-621): UnboundTypeVarError
\* is re-raised, any other exception becomes the "is not a dataclass and
\* cannot be turned into one" TypeError.
RetryError(exc) == IF exc = "UnboundTypeVarError" THEN exc ELSE "TypeError"

\* Lines 601-615: the class is not a dataclass: warn, convert it with
\* dataclasses.dataclass and compile the converted class.
IcsRetry(t) ==
  LET f == Top(t) IN
  /\ stack[t] # <<>>
  /\ f.op = "ics" /\ f.pc = "retry"
  /\ IF ~ClassDef(f.clazz.n).convertible
       THEN /\ Finish(t, ExcRet(RetryError("ValueError")))
            /\ UNCHANGED isDataclass
       ELSE /\ isDataclass' = [isDataclass EXCEPT ![f.clazz.n] = TRUE]
            /\ Call(t, [f EXCEPT !.pc = "retrywait"],
                    Frame("ics", f.clazz, f.base, "lookup", "call"))
            /\ UNCHANGED out
  /\ UNCHANGED <<ctx, cache, heap, schemaAttr, memo, returned, calls>>
  /\ UNCHANGED pureVars

\* The retried compilation came back: its schema is this call's result (the
\* wrapper stores it unless the key is there already), its exception goes
\* through the handlers.
IcsRetryReturn(t) ==
  LET f == Top(t)
      r == ret[t]
  IN
  /\ stack[t] # <<>>
  /\ f.op = "ics" /\ f.pc = "retrywait" /\ r.kind # "none"
  /\ cache' = LruResult(cache, CacheKey(f.clazz, f.base), r)
  /\ Finish(t, IF r.kind = "val" THEN r ELSE ExcRet(RetryError(r.exc)))
  /\ UNCHANGED <<ctx, heap, schemaAttr, memo, isDataclass, returned, calls>>
  /\ UNCHANGED pureVars

\* The frame after one leaf of the current field is settled with reference r:
\* the next leaf, or, after the last one, the field joins the attributes.
Advance(f, r) ==
  LET fld == f.fields[f.fi] IN
  IF f.li >= Len(Leaves(fld.typ))
    THEN [f EXCEPT !.attrs = Append(f.attrs,
                     [name |-> fld.name, typ |-> fld.typ, refs |-> f.refs \o r]),
                   !.fi = f.fi + 1, !.li = 1, !.refs = <<>>, !.pc = "fields"]
    ELSE [f EXCEPT !.li = f.li + 1, !.refs = f.refs \o r, !.pc = "fields"]

\* type(class_name, (_base_schema(clazz, base_schema),), attributes)
NewSchema(f) ==
  [clazz |-> f.clazz, base |-> f.base, name |-> ClassNameOf(f.clazz), fields |-> f.attrs,
   ns |-> f.ns]

\* Lines 638-657 with _field_for_schema (lines 937-938 and 1044-1063): one
\* step of the attributes generator.  A field whose type needs no nested
\* schema is synthesized at once; a TypeVar raises UnboundTypeVarError; a
\* class or alias is settled by, in this order, LazyGenericSchema.get_schema,
\* the class's Schema attribute, the top context's seen_classes, a recursive
\* _internal_class_schema.  After the last field the schema class is built
\* and the wrapper stores it.
IcsField(t) ==
  LET f == Top(t)
      lv == Leaves(f.fields[f.fi].typ)
      leaf == lv[f.li]
      attr == SchemaAttrOf(leaf)
      hit == MemoIndex(MemoOf(leaf), leaf.a)
      id == Len(heap) + 1
  IN
  /\ stack[t] # <<>>
  /\ f.op \in {"ics", "fs"} /\ f.pc = "fields"
  /\ IF f.fi > Len(f.fields)
       THEN IF f.op = "fs"
              THEN \* field_for_schema: the field is the result
                   /\ Finish(t, FieldRet)
                   /\ UNCHANGED <<heap, cache, schemaAttr>>
              ELSE /\ heap' = Append(heap, NewSchema(f))
                   /\ cache' = LruStore(cache, CacheKey(f.clazz, f.base), id)
                   /\ Finish(t, ValRet(id))
                   /\ UNCHANGED schemaAttr
       ELSE
    /\ UNCHANGED <<heap, cache>>
    /\ IF lv = <<>>
         THEN /\ stack' = [stack EXCEPT ![t] = SetTop(stack[t], Advance(f, <<>>))]
              /\ UNCHANGED <<ret, out, schemaAttr>>
         ELSE
      IF IsTypeVar(leaf)
        THEN /\ Finish(t, ExcRet("UnboundTypeVarError"))
             /\ UNCHANGED schemaAttr
        ELSE
      CASE attr.kind = "generic" ->
             /\ UNCHANGED <<schemaAttr, out>>
             /\ IF hit # 0
                  THEN /\ stack' = [stack EXCEPT ![t] =
                                      SetTop(stack[t], Advance(f, <<SchemaRef(hit)>>))]
                       /\ UNCHANGED ret
                  ELSE Call(t, [f EXCEPT !.pc = "nestwait"],
                            Frame("cs", leaf, attr.base, "start", "gs"))
        [] attr.kind = "lazy" /\ attr.st = "resolved" ->
             /\ stack' = [stack EXCEPT ![t] =
                            SetTop(stack[t], Advance(f, <<SchemaRef(attr.id)>>))]
             /\ UNCHANGED <<ret, out, schemaAttr>>
        [] attr.kind = "lazy" /\ attr.st = "called" ->
             /\ stack' = [stack EXCEPT ![t] =
                            SetTop(stack[t], Advance(f, <<NameRef(leaf.n)>>))]
             /\ UNCHANGED <<ret, out, schemaAttr>>
        [] attr.kind = "lazy" /\ attr.st = "uncalled" ->
             /\ schemaAttr' = [schemaAttr EXCEPT ![leaf.n].st = "called"]
             /\ Call(t, [f EXCEPT !.pc = "nestwait"],
                     Frame("cs", leaf, attr.base, "start", "lazy"))
             /\ UNCHANGED out
        [] OTHER ->
             /\ UNCHANGED <<schemaAttr, out>>
             /\ IF leaf \in TopContext(t).seen
                  THEN /\ stack' = [stack EXCEPT ![t] =
                                      SetTop(stack[t],
                                             Advance(f, <<NameRef(ClassNameOf(leaf))>>))]
                       /\ UNCHANGED ret
                  ELSE Call(t, [f EXCEPT !.pc = "nestwait"],
                            Frame("ics", leaf, f.base, "lookup", "call"))
  /\ UNCHANGED <<ctx, memo, isDataclass, returned, calls>>
  /\ UNCHANGED pureVars

\* The nested compilation came back: its schema becomes the Nested field's
\* schema; its exception propagates.
IcsNestReturn(t) ==
  LET f == Top(t)
      r == ret[t]
  IN
  /\ stack[t] # <<>>
  /\ f.op \in {"ics", "fs"} /\ f.pc = "nestwait" /\ r.kind # "none"
  /\ IF r.kind = "val"
       THEN /\ stack' = [stack EXCEPT ![t] =
                           SetTop(stack[t], Advance(f, <<SchemaRef(r.id)>>))]
            /\ ret' = [ret EXCEPT ![t] = NoRet]
            /\ UNCHANGED out
       ELSE Finish(t, r)
  /\ UNCHANGED <<ctx, cache, heap, schemaAttr, memo, isDataclass, returned, calls>>
  /\ UNCHANGED pureVars

(***************************************************************************)
(* The compiler's specification: one thread issues the public calls.       *)
(***************************************************************************)
Next ==
  \E t \in MainThread :
    \/ \E rq \in Requests : CallClassSchema(t, rq)
    \/ \E n \in ClassNames : AccessSchema(t, n)
    \/ \E x \in AccessorTargets : GenericSchemaCall(t, x)
    \/ \E d \in DecorOps : Decorate(t, d)
    \/ \E typ \in FieldTargets : CallFieldForSchema(t, typ)
    \/ CsStart(t)
    \/ CsReturn(t)
    \/ FfsStart(t)
    \/ FfsReturn(t)
    \/ IcsLookup(t)
    \/ IcsRegister(t)
    \/ IcsRetry(t)
    \/ IcsRetryReturn(t)
    \/ IcsField(t)
    \/ IcsNestReturn(t)

Spec == Init /\ [][Next]_vars

(***************************************************************************)
(* The same compiler with two threads issuing requests that overlap.       *)
(***************************************************************************)
ThreadRequests ==
  {Rq(Cls("A"), "None"), Rq(Alias("G", <<TInt>>), "None"), Rq(Cls("Pair"), "None")}

ThreadNext ==
  \E t \in Threads :
    \/ \E rq \in ThreadRequests : CallClassSchema(t, rq)
    \/ CallFieldForSchema(t, TInt)
    \/ CsStart(t)
    \/ CsReturn(t)
    \/ FfsStart(t)
    \/ FfsReturn(t)
    \/ IcsLookup(t)
    \/ IcsRegister(t)
    \/ IcsField(t)
    \/ IcsNestReturn(t)

SpecThreads == Init /\ [][ThreadNext]_vars


(***************************************************************************)
(* Properties of the compiler (specification Spec).                        *)
(***************************************************************************)
\* A public class_schema call of thread t has come back to its caller.
Completed(t) == out[t].op = "class_schema" /\ stack[t] = <<>>

GInt == Alias("G", <<TInt>>)
GStr == Alias("G", <<TStr>>)
DfInt == Alias("Df", <<TInt>>)

\* C1: two class_schema calls with the same non-parametrized record type and
\* the same base schema return the identical schema object.  Stated for the
\* runs in which no more schemas were built than the cache holds, so that no
\* entry was ever evicted between the two calls.
C1_MemoizedIdentity ==
  Len(heap) <= MAX_CLASS_SCHEMA_CACHE_SIZE =>
    \A r1, r2 \in returned :
      (r1.clazz.k = "cls" /\ r1.clazz = r2.clazz /\ r1.base = r2.base)
        => r1.id = r2.id

\* The record types of the model with a self-referential field: plain (A),
\* decorated (D), parametrized generic (GS[int]) and decorated parametrized
\* generic (LG[int]).
SelfReferential ==
  {Cls("A"), Cls("D"), Alias("GS", <<TInt>>), Alias("LG", <<TInt>>)}

\* C2: class_schema(R) of a record type R with a self-referential field
\* terminates and returns a schema: a completed call for such a type has a
\* schema as its result, never an exception.
C2_SelfReferentialCompiles ==
  \A t \in Threads :
    (Completed(t) /\ out[t].clazz \in SelfReferential) => out[t].kind = "val"

\* The record types whose compilation meets an unbound type variable: in the
\* field synthesis (U), in the generic resolver (B1), inside the conversion
\* retry (WN, through its nested class N).
MeetsUnbound == {Cls("U"), Cls("B1"), Cls("WN")}

UnboundInFlight(t) ==
  stack[t] # <<>> /\ ret[t] = ExcRet("UnboundTypeVarError")

\* C3: an UnboundTypeVarError raised while compiling reaches the caller of
\* class_schema unchanged: while it travels up the call stack every step
\* either hands it on as it is or delivers it as the result of the public
\* call, and a completed call for a type that meets an unbound variable has
\* ended with UnboundTypeVarError.
C3_UnboundPropagates ==
  /\ [](\A t \in Threads :
          (Completed(t) /\ out[t].clazz \in MeetsUnbound)
            => out[t].kind = "exc" /\ out[t].exc = "UnboundTypeVarError")
  /\ [][\A t \in Threads :
          (UnboundInFlight(t) /\ stack'[t] # stack[t])
            => IF stack'[t] = <<>>
                 THEN out'[t].kind = "exc" /\ out'[t].exc = "UnboundTypeVarError"
                 ELSE ret'[t] = ret[t]]_vars

\* The UnboundTypeVarError raised inside the conversion retry was delivered.
C3_Witness ==
  \E t \in Threads :
    /\ Completed(t) /\ out[t].clazz = Cls("WN")
    /\ out[t].exc = "UnboundTypeVarError"
    /\ isDataclass["N"]

\* The schema r.id has, for every field its class declares with a type
\* parameter as type, a field of that name typed by the matching argument.
TypedByArgs(r) ==
  LET d == ClassDef(r.clazz.n)
      s == heap[r.id]
  IN \A i \in DOMAIN d.fields : \A j \in DOMAIN d.params :
       (d.fields[i].typ = Var(d.params[j]) /\ j <= Len(r.clazz.a))
         => \E k \in DOMAIN s.fields :
              /\ s.fields[k].name = d.fields[i].name
              /\ s.fields[k].typ = r.clazz.a[j]

IsUnsupportedUse(o) ==
  \/ o.op = "SchemaCall"
  \/ o.op \in {"dataclass", "add_schema"} /\ o.clazz.k = "alias"

\* C5: G.Schema(), G[A].Schema(), dataclass(G[A]) and add_schema(G[A]) raise
\* TypeError, and the step that raises compiles no schema and attaches no
\* Schema attribute: cache, schemas, Schema attributes, the accessors' memos
\* and the classes stay as they were.
C5_GenericAccessorRaises ==
  [][\A t \in Threads :
       (/\ calls' # calls
        /\ stack'[t] = <<>>
        /\ IsUnsupportedUse(out'[t])
        /\ \A u \in Threads \ {t} : out'[u] = out[u] /\ stack'[u] = stack[u])
         => /\ out'[t].kind = "exc" /\ out'[t].exc = "TypeError"
            /\ UNCHANGED <<cache, heap, schemaAttr, memo, isDataclass>>]_vars

\* add_schema or the Schema accessor was used on an alias and raised, and
\* no Schema attribute was attached to G and no schema was built.
C5_Witness ==
  \E t \in Threads :
    /\ stack[t] = <<>>
    /\ out[t].op \in {"add_schema", "SchemaCall"}
    /\ out[t].clazz.k = "alias"
    /\ out[t].exc = "TypeError"
    /\ schemaAttr["G"].kind = "none" /\ heap = <<>>

\* What the fields of the generic records of the model must be typed with:
\* the argument bound through the chain (B2[int], B3, Df[int]) or the
\* variable's default (Df: Td defaults to str, Ud to Td).
ExpectedFieldTypes(c) ==
  CASE c = Alias("B2", <<TInt>>) -> <<TInt>>
    [] c = Cls("B3") -> <<TInt>>
    [] c = Cls("Df") -> <<TStr, TStr>>
    [] c = DfInt -> <<TInt, TInt>>
    [] c = GInt -> <<TInt>>
    [] c = GStr -> <<TStr>>
    [] OTHER -> <<>>

\* C6: no field of a compiled schema is typed with a type variable; the
\* fields of a generic record are typed with the bound argument, else with
\* the variable's default; and a record with a variable that has neither
\* (U, B1) ends in UnboundTypeVarError.
C6_VariablesResolved ==
  /\ \A i \in DOMAIN heap : \A j \in DOMAIN heap[i].fields :
       ~HasVar(heap[i].fields[j].typ)
  /\ \A i \in DOMAIN heap :
       ExpectedFieldTypes(heap[i].clazz) # <<>>
         => [j \in DOMAIN heap[i].fields |-> heap[i].fields[j].typ]
              = ExpectedFieldTypes(heap[i].clazz)
  /\ \A t \in Threads :
       (Completed(t) /\ out[t].clazz \in {Cls("U"), Cls("B1")})
         => out[t].kind = "exc" /\ out[t].exc = "UnboundTypeVarError"

\* Df[int] was compiled (a binding and a default resolved through it) and a
\* record with an unbound variable was refused.
C6_Witness ==
  /\ \E r \in returned : r.clazz = DfInt
  /\ \E t \in Threads :
       Completed(t) /\ out[t].clazz = Cls("U") /\ out[t].exc = "UnboundTypeVarError"

\* C8: the fields of a compiled schema are exactly the class's fields that
\* are init fields, or all of them when its Meta sets include_non_init.
C8_InitFieldsIncluded ==
  \A i \in DOMAIN heap :
    LET d == ClassDef(heap[i].clazz.n)
        s == heap[i]
    IN d.bases = <<>> =>
         {s.fields[j].name : j \in DOMAIN s.fields}
           = {d.fields[j].name :
                j \in {k \in DOMAIN d.fields : d.fields[k].init \/ d.includeNonInit}}

\* A (non-init field left out) and D (include_non_init: kept) were compiled.
C8_Witness ==
  /\ \E i \in DOMAIN heap :
       /\ heap[i].clazz = Cls("A")
       /\ \A j \in DOMAIN heap[i].fields : heap[i].fields[j].name # "unimportant"
  /\ \E i \in DOMAIN heap :
       /\ heap[i].clazz = Cls("D")
       /\ \E j \in DOMAIN heap[i].fields : heap[i].fields[j].name = "unimportant"

CachedKeys(c) == {c[i].key : i \in DOMAIN c}

\* C10: the cache never holds more than MAX_CLASS_SCHEMA_CACHE_SIZE entries
\* nor two entries with one key, and a step that adds a new key to a full
\* cache drops exactly the least recently used entry (the first one) and
\* appends the new one.
C10_CacheBoundedLru ==
  /\ [](/\ Len(cache) <= MAX_CLASS_SCHEMA_CACHE_SIZE
        /\ \A i, j \in DOMAIN cache : cache[i].key = cache[j].key => i = j)
  /\ [][(/\ Len(cache) = MAX_CLASS_SCHEMA_CACHE_SIZE
         /\ CachedKeys(cache') \ CachedKeys(cache) # {})
          => /\ Len(cache') = MAX_CLASS_SCHEMA_CACHE_SIZE
             /\ SubSeq(cache', 1, Len(cache') - 1) = Tail(cache)
             /\ cache'[Len(cache')].key \notin CachedKeys(cache)]_vars

\* The cache is full and a schema that was built is no longer cached: its
\* entry was evicted.
C10_Witness ==
  /\ Len(cache) = MAX_CLASS_SCHEMA_CACHE_SIZE
  /\ \E i \in DOMAIN heap :
       CacheIndex(cache, CacheKey(heap[i].clazz, heap[i].base)) = 0


\* The requests for a class that is no dataclass and that
\* dataclasses.dataclass refuses, at the top (X) or nested in a field (WX).
NotConvertible == {Cls("X"), Cls("WX")}

\* C11: a class_schema request that meets a type which is not a dataclass
\* and cannot be converted into one ends with the "is not a dataclass and
\* cannot be turned into one" TypeError.
C11_NotConvertibleIsTypeError ==
  \A t \in Threads :
    (Completed(t) /\ out[t].clazz \in NotConvertible)
      => (out[t].kind = "exc" /\ out[t].exc = "TypeError")


\* The frames of thread t that are inside the with statement of class_schema
\* or field_for_schema.
InsideWith(t) ==
  {i \in DOMAIN stack[t] :
     stack[t][i].op \in {"cs", "ffs"} /\ stack[t][i].pc = "wait"}

\* C12: the context stack of a thread holds exactly one context per
\* class_schema or field_for_schema call that thread is inside of, so each
\* call pushes one context and pops it when it returns or raises, and a
\* thread with no call in progress has the stack it had before, the empty one.
C12_ContextStackBalanced ==
  \A t \in Threads :
    /\ Len(ctx[t]) = Cardinality(InsideWith(t))
    /\ stack[t] = <<>> => ctx[t] = <<>>

\* A field_for_schema call that raised inside its with statement is over,
\* after a class_schema call that built a schema, and the stack is empty.
C12_Witness ==
  \E t \in Threads :
    /\ out[t].op = "field_for_schema" /\ stack[t] = <<>>
    /\ out[t].kind = "exc" /\ out[t].exc = "UnboundTypeVarError"
    /\ heap # <<>> /\ ctx[t] = <<>>


\* C13: all the compilations of one top-level request run under the one
\* context that request pushed: no nested compilation pushes another.
C13_NestedCompilationsShareContext ==
  \A t \in Threads : Len(ctx[t]) <= 1


\* C14: while a type is mid-compilation (registered, its fields being
\* synthesized), a field of that type does not start another compilation
\* of it on the same thread.
C14_NoReentryWhileCompiling ==
  \A t \in Threads :
    \A i, j \in DOMAIN stack[t] :
      (/\ i < j
       /\ stack[t][i].op = "ics" /\ stack[t][i].pc = "nestwait"
       /\ stack[t][j].op = "ics")
        => stack[t][j].clazz # stack[t][i].clazz


\* The types thread t is compiling: those with an _internal_class_schema
\* call on its call stack.
InProgress(t) ==
  {stack[t][i].clazz : i \in {j \in DOMAIN stack[t] : stack[t][j].op = "ics"}}

\* C15: while a thread synthesizes the fields of a type, the seen_classes of
\* its context holds only types whose compilation has begun and has not
\* finished.
C15_SeenClassesAreInProgress ==
  \A t \in Threads :
    (stack[t] # <<>> /\ Top(t).op = "ics" /\ Top(t).pc = "fields")
      => TopContext(t).seen \subseteq InProgress(t)


\* C16: every context on a thread's stack was pushed by that thread, so the
\* top a request reads is its own thread's; and a step in which a thread
\* does not move (another thread pushes, registers or pops) leaves that
\* thread's context stack as it was.
C16_ContextStacksAreThreadLocal ==
  /\ [](\A t \in Threads : \A i \in DOMAIN ctx[t] : ctx[t][i].by = t)
  /\ [][\A t \in Threads : stack'[t] = stack[t] => ctx'[t] = ctx[t]]_vars

\* Both threads are inside a request at once, each with its own type
\* registered in its own context.
C16_Witness ==
  /\ ctx[1] # <<>> /\ ctx[2] # <<>>
  /\ ctx[1][1].seen # {} /\ ctx[2][1].seen # {}
  /\ ctx[1][1].seen # ctx[2][1].seen


\* C17: as long as nothing has been evicted, at most one schema has been
\* built for each (record type, base schema), whatever the interleaving of
\* the threads, and all the requests for that key returned it.
C17_BuiltOncePerKey ==
  Len(heap) <= MAX_CLASS_SCHEMA_CACHE_SIZE =>
    /\ \A i, j \in DOMAIN heap :
         (heap[i].clazz = heap[j].clazz /\ heap[i].base = heap[j].base) => i = j
    /\ \A r, q \in returned :
         (r.clazz = q.clazz /\ r.base = q.base) => r.id = q.id


\* C18: a Nested field whose schema came from LazyGenericSchema.get_schema(X)
\* has the schema compiled for exactly X, for every X whose Schema attribute
\* is the accessor, inherited or not.
C18_GetSchemaIsForItsArgument ==
  \A i \in DOMAIN heap : \A j \in DOMAIN heap[i].fields :
    LET fl == heap[i].fields[j] IN
    \A m \in DOMAIN fl.refs :
      (/\ fl.refs[m].k = "schema"
       /\ SchemaAttrOf(Leaves(fl.typ)[m]).kind = "generic")
        => heap[fl.refs[m].id].clazz = Leaves(fl.typ)[m]


\* marshmallow's class registry, by which a Nested field finds the schema a
\* name stands for: the first schema class registered under the name (all
\* schema classes of the compiler are created in one module, and a later
\* class of the same name and module does not replace the first).
IsRegisteredAs(i, name) ==
  /\ i \in DOMAIN heap /\ heap[i].name = name
  /\ \A j \in DOMAIN heap : j < i => heap[j].name # name

\* C26: the contexts never hold two different record types under one
\* display name, and, once no call is in progress, every Nested field that
\* refers to its schema by name finds under that name a schema compiled for
\* the type of the field.
C26_NamesDenoteOneType ==
  /\ \A k \in DOMAIN ctx : \A i \in DOMAIN ctx[k] :
       \A a, b \in ctx[k][i].seen : ClassNameOf(a) = ClassNameOf(b) => a = b
  /\ (\A t \in Threads : stack[t] = <<>>)
       => \A i \in DOMAIN heap : \A j \in DOMAIN heap[i].fields :
            LET fl == heap[i].fields[j] IN
            \A m \in DOMAIN fl.refs :
              fl.refs[m].k = "name"
                => \E r \in DOMAIN heap :
                     /\ IsRegisteredAs(r, fl.refs[m].name)
                     /\ heap[r].clazz = Leaves(fl.typ)[m]

\* C27: after a class_schema call that raised, the cache is what it was when
\* the call began.
C27_FailedRequestLeavesCacheUnchanged ==
  \A t \in Threads :
    (Completed(t) /\ out[t].kind = "exc") => cache = out[t].before

\* C27, amended: after a class_schema call that raised, the cache has no
\* entry for the key of the call, and every entry that was not there when
\* the call began holds the finished schema of its own key (a nested record
\* type whose own compilation returned before the failure).
C27_FailedRequestCachesOnlyFinishedSchemas ==
  \A t \in Threads :
    (Completed(t) /\ out[t].kind = "exc")
      => /\ CacheIndex(cache, CacheKey(out[t].clazz, out[t].base)) = 0
         /\ \A i \in DOMAIN cache :
              \/ \E j \in DOMAIN out[t].before : out[t].before[j] = cache[i]
              \/ /\ cache[i].id \in DOMAIN heap
                 /\ CacheKey(heap[cache[i].id].clazz, heap[cache[i].id].base)
                      = cache[i].key

\* class_schema(MX) raised on its second field after the class of its first
\* field was compiled and cached.
C27_Witness ==
  /\ Completed(1) /\ out[1].kind = "exc" /\ out[1].clazz = Cls("MX")
  /\ out[1].before = <<>>
  /\ \E i \in DOMAIN cache : cache[i].key = CacheKey(Cls("M"), "None")

\* The schema with identity i was built from the namespaces ns: its type
\* hints were resolved in them, the one of FR's field to what Target stands
\* for there.
BuiltFrom(i, ns) ==
  /\ heap[i].ns = ns
  /\ heap[i].clazz = Cls("FR") => heap[i].fields[1].typ = Namespace(ns).Target

\* C28: the schema a class_schema call returns was built from the
\* namespaces of that call.
C28_BuiltFromOwnNamespaces ==
  \A t \in Threads :
    (Completed(t) /\ out[t].kind = "val") => BuiltFrom(out[t].id, out[t].ns)

\* C28, amended: the schema a class_schema call returns was built from the
\* namespaces of that call when the cache had no entry for (clazz,
\* base_schema) as the call began; when it had one, the call returns the
\* schema of that entry, whatever namespaces it was built from.
C28_BuiltFromOwnNamespacesOnMiss ==
  \A t \in Threads :
    (Completed(t) /\ out[t].kind = "val")
      => LET i == CacheIndex(out[t].before, CacheKey(out[t].clazz, out[t].base))
         IN IF i = 0 THEN BuiltFrom(out[t].id, out[t].ns)
            ELSE out[t].id = out[t].before[i].id

\* class_schema(FR) with the second namespaces returned the schema an
\* earlier call built from the first: its field is an int, not a str.
C28_Witness ==
  /\ Completed(1) /\ out[1].kind = "val" /\ out[1].clazz = Cls("FR")
  /\ out[1].ns = "L2" /\ heap[out[1].id].ns = "L1"
  /\ heap[out[1].id].fields[1].typ = Prim("int")

\* C29: every schema a Nested field of a compiled schema holds is derived
\* from the base schema the compiled schema is derived from.
C29_NestedSchemasShareTheBase ==
  \A i \in DOMAIN heap : \A j \in DOMAIN heap[i].fields :
    LET fl == heap[i].fields[j] IN
    \A m \in DOMAIN fl.refs :
      fl.refs[m].k = "schema" => heap[fl.refs[m].id].base = heap[i].base

\* C29, amended: a schema returned for base schema B is derived from B, and
\* so is every nested schema its fields got by recursive compilation; a
\* nested schema supplied by the nested type's own Schema attribute (the
\* accessor of a decorated class, get_schema of a decorated generic class)
\* is derived from the base schema of that attribute.
C29_NestedBaseFollowsThePath ==
  /\ \A t \in Threads :
       (Completed(t) /\ out[t].kind = "val") => heap[out[t].id].base = out[t].base
  /\ \A i \in DOMAIN heap : \A j \in DOMAIN heap[i].fields :
       LET fl == heap[i].fields[j] IN
       \A m \in DOMAIN fl.refs :
         fl.refs[m].k = "schema"
           => LET attr == SchemaAttrOf(Leaves(fl.typ)[m])
              IN heap[fl.refs[m].id].base =
                   IF attr.kind \in {"lazy", "generic"} THEN attr.base
                   ELSE heap[i].base

\* class_schema(H, Base) returned a schema derived from Base whose field a
\* holds the schema LazyGenericSchema.get_schema compiled for DG[int], which
\* is not derived from Base.
C29_Witness ==
  /\ Completed(1) /\ out[1].kind = "val"
  /\ out[1].clazz = Cls("H") /\ out[1].base = "Base"
  /\ heap[out[1].id].base = "Base"
  /\ heap[heap[out[1].id].fields[1].refs[1].id].base = "None"

\* C25: whenever a thread is at a step of _internal_class_schema or of
\* _field_for_schema that reads the top of the context stack (the
\* registration of the class, the synthesis of a field), the stack of that
\* thread is not empty.
C25_ContextPushedBeforeRead ==
  \A t \in Threads :
    (stack[t] # <<>> /\ Top(t).op \in {"ics", "fs"} /\ Top(t).pc \in {"reg", "fields"})
      => ctx[LocalStack(t)] # <<>>

\* A nested compilation, two calls of _internal_class_schema deep, is about
\* to read the context its request pushed.
C25_Witness ==
  /\ Len(stack[1]) >= 4 /\ Top(1).op = "ics" /\ Top(1).pc = "reg"
  /\ Len(ctx[LocalStack(1)]) = 1

(***************************************************************************)
(* SpecField: the field _field_for_schema synthesizes for one declared     *)
(* type, the options it derives, and the load of a Str or Integer field.   *)
(* The metadata mapping is a record whose entries are                      *)
(* "unset" when the key is absent; Python's None is "None"; a decoded      *)
(* value is "s:..." (a str) or "i:..." (an int), as is a raw input value.  *)
(* The entry validate is a record: form "unset" (no key), "None", "one" (a *)
(* callable, vs[1]), "seq" (an iterable of callables, vs) or "other" (a    *)
(* value neither callable nor iterable); description stands for the key    *)
(* metadata["metadata"]["description"].                                    *)
(***************************************************************************)
NoValidate == [form |-> "unset", vs |-> <<>>]

MetadataValues ==
  [required : {"unset", "true", "false"},
   allow_none : {"unset", "true", "false"},
   load_default : {"unset", "None", "s:m"},
   dump_default : {"unset", "None"},
   marshmallow_field : {"unset", "custom"},
   validate : {NoValidate}, description : {"unset"}]

\* The declared types, the dataclass defaults (marshmallow.missing when the
\* field has none) and the raw inputs SpecField ranges over.
\* typing.Any, the Ellipsis of Tuple[X, ...], a container type written
\* without arguments (by its name in CONTAINER_TYPES) and a container type
\* with arguments (by its origin, as typing.get_origin reports it).
TAny == [k |-> "any", n |-> "Any", a |-> <<>>]
TEllipsis == [k |-> "ellipsis", n |-> "...", a |-> <<>>]
Bare(n) == [k |-> "bare", n |-> n, a |-> <<>>]
Param(origin, args) == [k |-> "param", n |-> origin, a |-> args]

\* Lines 82-97, in the same order.
CONTAINER_TYPES ==
  <<"list", "List", "tuple", "Tuple", "frozenset", "FrozenSet", "set", "Set",
    "abc.Sequence", "Sequence", "dict", "Dict", "abc.Mapping", "Mapping">>

BareContainers == {Bare(CONTAINER_TYPES[i]) : i \in DOMAIN CONTAINER_TYPES}

ParamContainers ==
  {Param("list", <<TAny>>), Param("tuple", <<TAny, TEllipsis>>),
   Param("frozenset", <<TAny>>), Param("set", <<TAny>>),
   Param("abc.Sequence", <<TAny>>), Param("dict", <<TAny, TAny>>),
   Param("abc.Mapping", <<TAny, TAny>>), Param("list", <<TInt>>),
   Param("tuple", <<TInt, TStr>>)}

\* NoneType, and a Union of two or more alternatives besides None (Opt is
\* the Union of one alternative and None).
TNone == [k |-> "none", n |-> "None", a |-> <<>>]
UnionOf(args) == [k |-> "union", n |-> "", a |-> args]

UnionTypes ==
  {UnionOf(<<TInt, TStr>>), UnionOf(<<TStr, TNone, TInt>>),
   UnionOf(<<TStr, Param("list", <<TInt>>)>>)}

FieldTypes ==
  {TStr, TInt, Opt(TStr), Opt(TInt), Var("T"), TAny}
    \cup BareContainers \cup ParamContainers \cup UnionTypes
FieldDefaultValues == {"missing", "s:d"}
RawInputs == {"omitted", "null", "s:a", "i:2", "s:2"}

\* The keys of a base schema's TYPE_MAPPING that _field_for_container_type
\* looks up (lines 744-747, 780-783 and 789-801).
TypeMappingKeys ==
  {"list", "List", "tuple", "Tuple", "Dict", "dict", "abc.Mapping", "Mapping"}

\* type_mapping without a base schema (line 738): the empty dict.
NoTypeMapping == [key \in TypeMappingKeys |-> "absent"]

\* The TYPE_MAPPING of a base schema, per key: no entry, marshmallow's own
\* entry for list and tuple (Raw), or a field class the user registered.
TypeMappings ==
  {tm \in [TypeMappingKeys -> {"absent", "Raw", "custom"}] :
     \A key \in TypeMappingKeys \ {"list", "tuple"} : tm[key] # "Raw"}

\* The field class a user registered under a key, named after the key.
CustomClass(key) ==
  CASE key = "list" -> "Custom@list" [] key = "List" -> "Custom@List"
    [] key = "tuple" -> "Custom@tuple" [] key = "Tuple" -> "Custom@Tuple"
    [] key = "Dict" -> "Custom@Dict" [] key = "dict" -> "Custom@dict"
    [] key = "abc.Mapping" -> "Custom@abc.Mapping"
    [] key = "Mapping" -> "Custom@Mapping"

\* type_mapping.get(key, dflt)
MappingGet(tm, key, dflt) ==
  CASE tm[key] = "absent" -> dflt
    [] tm[key] = "Raw" -> "Raw"
    [] tm[key] = "custom" -> CustomClass(key)

FieldInputs ==
  [typ : FieldTypes, default : FieldDefaultValues, data : RawInputs,
   tm : {NoTypeMapping}, md : MetadataValues]

\* dict.setdefault
SetDefault(md, key, v) == IF md[key] = "unset" THEN [md EXCEPT ![key] = v] ELSE md

\* typing_inspect.is_optional_type: a Union with None among its arguments
is_optional_type(typ) ==
  \/ typ.k = "opt"
  \/ typ.k = "union" /\ \E i \in DOMAIN typ.a : typ.a[i] = TNone

\* typing_inspect.is_union_type
is_union_type(typ) == typ.k \in {"opt", "union"}

DefaultsAndRequiredTypeBlind(typ, default, md) ==
  IF default # "missing"
    THEN LET m1 == SetDefault(md, "dump_default", default)
         IN IF m1.required # "true" THEN SetDefault(m1, "load_default", default) ELSE m1
    ELSE SetDefault(md, "required", "true")

\* Lines 942-948: the defaults and the required flag derived from the
\* dataclass default.
DefaultsAndRequired(typ, default, md) ==
  IF default # "missing"
    THEN LET m1 == SetDefault(md, "dump_default", default)
         IN IF m1.required # "true" THEN SetDefault(m1, "load_default", default) ELSE m1
    ELSE SetDefault(md, "required", IF is_optional_type(typ) THEN "false" ELSE "true")

OptionalDefaultsNoLoadDefault(md) ==
  SetDefault(SetDefault(SetDefault(md, "allow_none", "true"),
                        "dump_default", "None"), "required", "false")

\* _field_for_union_type, lines 853-858: an Optional allows None, dumps and
\* loads None by default, and is not required, unless the metadata says
\* otherwise.
OptionalDefaults(md) ==
  LET m1 == SetDefault(SetDefault(md, "allow_none", "true"), "dump_default", "None")
      m2 == IF m1.required # "true" THEN SetDefault(m1, "load_default", "None") ELSE m1
  IN SetDefault(m2, "required", "false")

\* The field the user passed as metadata["marshmallow_field"]: here a
\* marshmallow.fields.Str(required=True).
CustomField ==
  [kind |-> "predefined", typ |-> "str", required |-> TRUE, allow_none |-> FALSE,
   load_default |-> "unset", dump_default |-> "unset", validate |-> <<>>,
   description |-> "unset"]

\* The callables of a validate entry: those of an iterable, the callable
\* itself, and none for any other value (lines 686-690).
Validators(validate) ==
  CASE validate.form = "seq" -> validate.vs
    [] validate.form = "one" -> <<validate.vs[1]>>
    [] OTHER -> <<>>

\* field(**metadata): marshmallow's Field constructor refuses a load_default
\* on a required field, allows None by default exactly when the
\* load_default is None, and keeps the validators as a list.
FieldNew(typn, md) ==
  IF md.required = "true" /\ md.load_default # "unset"
    THEN [NoField EXCEPT !.kind = "ValueError"]
    ELSE [kind |-> "field", typ |-> typn,
          required |-> md.required = "true",
          allow_none |-> IF md.allow_none = "unset"
                           THEN md.load_default = "None"
                           ELSE md.allow_none = "true",
          load_default |-> md.load_default,
          dump_default |-> md.dump_default,
          validate |-> Validators(md.validate),
          description |-> md.description]

\* _container_type_add_any: a container type without arguments gets Any
\* for arguments, for the names the function tests.
container_type_add_any(typ) ==
  IF typ.k # "bare" THEN typ
  ELSE CASE typ.n \in {"list", "List"} -> Param("list", <<TAny>>)
         [] typ.n \in {"dict", "Dict"} -> Param("dict", <<TAny, TAny>>)
         [] typ.n = "Mapping" -> Param("abc.Mapping", <<TAny, TAny>>)
         [] typ.n = "Sequence" -> Param("abc.Sequence", <<TAny>>)
         [] typ.n \in {"set", "Set"} -> Param("set", <<TAny>>)
         [] typ.n \in {"frozenset", "FrozenSet"} -> Param("frozenset", <<TAny>>)
         [] OTHER -> typ

\* typing.get_origin: the origin of a subscripted type and of a bare typing
\* alias; None for a plain class.
get_origin(typ) ==
  CASE typ.k = "param" -> typ.n
    [] typ.k = "bare" /\ typ.n = "List" -> "list"
    [] typ.k = "bare" /\ typ.n = "Tuple" -> "tuple"
    [] typ.k = "bare" /\ typ.n = "FrozenSet" -> "frozenset"
    [] typ.k = "bare" /\ typ.n = "Set" -> "set"
    [] typ.k = "bare" /\ typ.n = "Sequence" -> "abc.Sequence"
    [] typ.k = "bare" /\ typ.n = "Dict" -> "dict"
    [] typ.k = "bare" /\ typ.n = "Mapping" -> "abc.Mapping"
    [] OTHER -> "None"

\* typ in CONTAINER_TYPES (line 959)
InContainerTypes(typ) ==
  typ.k = "bare" /\ \E i \in DOMAIN CONTAINER_TYPES : CONTAINER_TYPES[i] = typ.n

\* _field_by_type with no base_schema: marshmallow.Schema.TYPE_MAPPING maps
\* str and int to their fields and the classes list, set and tuple to Raw.
field_by_type(typ) ==
  CASE typ.k = "prim" -> typ.n
    [] typ.k = "bare" /\ typ.n \in {"list", "set", "tuple"} -> "Raw"
    [] OTHER -> "None"

\* A field built over other fields: field_class(children, **metadata).
ContainerField(cls, children, md) ==
  LET f == FieldNew(cls, md) IN
  IF f.kind # "field" THEN f
  ELSE [kind |-> "container", typ |-> cls, opts |-> f, children |-> children]

\* The empty metadata of a synthesis for an element type.
NoMetadata == NoFieldInput.md

\* The container classes dataclasses.dataclass accepts (abstract classes
\* written in Python); it refuses the builtin ones.
ConvertibleContainers == {"abc.Sequence", "abc.Mapping"}

\* Lines 1044-1063 for a type that is no dataclass and has no Schema
\* attribute: _internal_class_schema converts it and compiles a schema with
\* no fields, or raises the "is not a dataclass and cannot be turned into
\* one" TypeError.
NestedRecord(typ, md) ==
  IF typ.n \notin ConvertibleContainers
    THEN [NoField EXCEPT !.kind = "TypeError"]
    ELSE LET f == FieldNew("Nested", md) IN
         IF f.kind # "field" THEN f
         ELSE [kind |-> "nested", typ |-> typ.n, opts |-> f, children |-> <<>>]

KeepsNone(t) == TRUE

\* t is not NoneType (line 859)
NotNoneType(t) == t # TNone

\* The metadata of a Union's alternative (line 871)
RequiredOnly == [NoMetadata EXCEPT !.required = "true"]

\* union_field.Union(alternatives, **metadata): the alternatives are kept as
\* given, pairs of a type and its field.
UnionField(alts, md) ==
  LET f == FieldNew("Union", md) IN
  IF f.kind # "field" THEN f
  ELSE [kind |-> "union", typ |-> "Union", opts |-> f, alts |-> alts]

PredefinedFieldIgnored(md) == "unset"

\* metadata.get("marshmallow_field"), line 951
predefined_field(md) == md.marshmallow_field

\* typing.Final[X], and Final written without an argument.
FinalOf(args) == [k |-> "final", n |-> "Final", a |-> args]

\* NewType(name, typ, field=None, **kwargs), lines 1154-1196: a typing.NewType
\* of typ that carries the field class and the keyword arguments.
NewTypeOf(name, typ) == [k |-> "newtype", n |-> name, a |-> <<typ>>]

\* The aliases declared: IPv4 and Email as in the docstring of NewType, and
\* aliases with several validators, with required=True, with defaults, and
\* over another alias.
IPv4 == NewTypeOf("IPv4", TStr)
Email == NewTypeOf("Email", TStr)
Port == NewTypeOf("Port", TInt)
Req == NewTypeOf("Req", TStr)
Dflt == NewTypeOf("Dflt", TStr)
Strict == NewTypeOf("Strict", IPv4)

\* _marshmallow_args (line 1195): the keyword arguments of the declaration.
marshmallow_args(typ) ==
  CASE typ.n = "IPv4" ->
         [NoMetadata EXCEPT !.validate = [form |-> "one", vs |-> <<"Regexp">>]]
    [] typ.n = "Port" ->
         [NoMetadata EXCEPT !.validate = [form |-> "seq", vs |-> <<"Min", "Max">>],
                            !.allow_none = "true"]
    [] typ.n = "Req" -> [NoMetadata EXCEPT !.required = "true"]
    [] typ.n = "Dflt" -> [NoMetadata EXCEPT !.load_default = "s:a",
                                            !.dump_default = "s:a"]
    [] typ.n = "Strict" ->
         [NoMetadata EXCEPT !.validate = [form |-> "one", vs |-> <<"Length">>]]
    [] OTHER -> NoMetadata

\* _marshmallow_field (line 1193): the field class of the declaration.
marshmallow_field(typ) == IF typ.n = "Email" THEN "fields.Email" ELSE "None"

\* "key in metadata"
HasKey(md, key) ==
  IF key = "validate" THEN md.validate.form # "unset" ELSE md[key] # "unset"

\* {**typ_args, **metadata} (line 693)
Overlay(typ_args, md) ==
  [key \in DOMAIN md |-> IF HasKey(md, key) THEN md[key] ELSE typ_args[key]]

\* The validate entry of a list of validators, None when it is empty
\* (line 691).
ValidateOf(new_validators) ==
  IF new_validators # <<>> THEN [form |-> "seq", vs |-> new_validators]
  ELSE [form |-> "None", vs |-> <<>>]

\* type(default) for the defaults of the model, and callable(default).
TypeOfDefault(default) == TStr
IsCallable(default) == default = "factory"

RECURSIVE FieldForSchema(_, _, _)

FieldBySupertypeLocalFirst(typ, default, newtype_supertype, md) ==
  LET typ_args == marshmallow_args(typ)
      new_validators == Validators(md.validate) \o Validators(typ_args.validate)
      m1 == [md EXCEPT !.validate = ValidateOf(new_validators)]
      m2 == SetDefault(Overlay(typ_args, m1), "description", typ.n)
      field == marshmallow_field(typ)
  IN IF field # "None" THEN FieldNew(field, m2)
     ELSE FieldForSchema(newtype_supertype, default, m2)

\* _field_by_supertype (lines 668-704): the validators of the alias and then
\* those of the metadata, the alias's arguments under the metadata, the
\* alias's name for description, and the alias's field class or the field
\* of the underlying type.
field_by_supertype(typ, default, newtype_supertype, md) ==
  LET typ_args == marshmallow_args(typ)
      new_validators == Validators(typ_args.validate) \o Validators(md.validate)
      m1 == [md EXCEPT !.validate = ValidateOf(new_validators)]
      m2 == SetDefault(Overlay(typ_args, m1), "description", typ.n)
      field == marshmallow_field(typ)
  IN IF field # "None" THEN FieldNew(field, m2)
     ELSE FieldForSchema(newtype_supertype, default, m2)

\* type_mapping (line 738): the TYPE_MAPPING of the base schema, which every
\* call of the synthesis hands down unchanged.
type_mapping == fin.tm

\* Lines 744-750, 780-787 and 789-806: the class of the wrapper field of a
\* list, of a fixed-arity tuple and of a mapping.
list_type(tm) ==
  LET by_list == MappingGet(tm, "list", "Raw")
  IN IF by_list = "Raw" THEN MappingGet(tm, "List", "List") ELSE by_list

tuple_type(tm) ==
  LET by_tuple == MappingGet(tm, "tuple", "Raw")
  IN IF by_tuple = "Raw" THEN MappingGet(tm, "List", "Tuple") ELSE by_tuple

dict_type(tm) ==
  MappingGet(tm, "Dict",
    MappingGet(tm, "dict",
      MappingGet(tm, "abc.Mapping", MappingGet(tm, "Mapping", "Dict"))))

\* _field_for_container_type (lines 734-808): the field of a type that has
\* an origin, by that origin.
field_for_container_type(typ, md) ==
  LET origin == get_origin(typ)
      child(i) == FieldForSchema(typ.a[i], "missing", NoMetadata)
  IN
  CASE origin = "list" -> ContainerField(list_type(type_mapping), <<child(1)>>, md)
    [] \/ origin = "abc.Sequence"
       \/ origin = "tuple" /\ Len(typ.a) = 2 /\ typ.a[2] = TEllipsis ->
         ContainerField("Sequence", <<child(1)>>, md)
    [] origin = "set" -> ContainerField("Set", <<child(1)>>, md)
    [] origin = "frozenset" -> ContainerField("FrozenSet", <<child(1)>>, md)
    [] origin = "tuple" /\ ~(Len(typ.a) = 2 /\ typ.a[2] = TEllipsis) ->
         ContainerField(tuple_type(type_mapping),
                        [i \in DOMAIN typ.a |-> child(i)], md)
    [] origin \in {"dict", "abc.Mapping"} ->
         ContainerField(dict_type(type_mapping), <<child(1), child(2)>>, md)

\* _field_for_schema (lines 937-1063) for the types of FieldTypes, in the
\* order of the code: the TypeVar check, the derived defaults, the user's
\* own field, _container_type_add_any, the TYPE_MAPPING field of a base
\* type, Any, a Union (for an Optional the field of its only non-None
\* alternative), a container, and last the nested record.
FieldForSchema(typ, default, md) ==
  IF IsTypeVar(typ)
    THEN [NoField EXCEPT !.kind = "UnboundTypeVarError"]
    ELSE
  LET m0 == DefaultsAndRequired(typ, default, md)
      t1 == container_type_add_any(typ)
  IN
  IF predefined_field(m0) # "unset"
    THEN CustomField
    ELSE
  CASE ~InContainerTypes(t1) /\ field_by_type(t1) # "None" ->
         FieldNew(field_by_type(t1), m0)
    [] t1.k = "any" -> FieldNew("Raw", SetDefault(m0, "allow_none", "true"))
    [] t1.k = "final" ->
         \* lines 981-1013
         LET subtyp == IF t1.a # <<>> THEN t1.a[1]
                       ELSE IF default # "missing"
                              THEN (IF IsCallable(default) THEN TAny
                                    ELSE TypeOfDefault(default))
                              ELSE TAny
         IN FieldForSchema(subtyp, default, m0)
    [] t1.k = "newtype" -> field_by_supertype(t1, default, t1.a[1], m0)
    [] is_union_type(t1) ->
         \* _field_for_union_type, lines 846-882
         LET m1 == IF is_optional_type(t1) THEN OptionalDefaults(m0) ELSE m0
             subtypes == SelectSeq(t1.a, NotNoneType)
         IN IF Len(subtypes) = 1
              THEN FieldForSchema(subtypes[1], "missing", m1)
              ELSE UnionField([i \in DOMAIN subtypes |->
                                 [typ |-> subtypes[i],
                                  field |-> FieldForSchema(subtypes[i], "missing",
                                                           RequiredOnly)]],
                              m1)
    [] ~is_union_type(t1) /\ t1.k \notin {"any", "prim", "final", "newtype"}
         /\ get_origin(t1) # "None" ->
         field_for_container_type(t1, m0)
    [] OTHER -> NestedRecord(t1, m0)

\* What a Str, an Integer or a Raw field makes of a raw value: a Str takes
\* strings only, an Integer takes integers and the strings that spell one,
\* a Raw field hands the value on as it is.
DeserializeValue(typn, raw) ==
  CASE typn = "Raw" -> raw
    [] typn = "str" /\ raw \in {"s:a", "s:2"} -> raw
    [] typn = "int" /\ raw \in {"i:2", "s:2"} -> "i:2"
    [] typn = "int" /\ raw = "i:3" -> "i:3"
    [] OTHER -> "ValidationError"

\* marshmallow's load of one field: a missing key is an error when the field
\* is required, else yields the load_default if there is one; None is an
\* error unless allowed; any other value is deserialized by the field.
LoadField(field, raw) ==
  CASE raw = "omitted" ->
         IF field.required THEN "ValidationError"
         ELSE IF field.load_default = "unset" THEN "absent"
         ELSE field.load_default
    [] raw = "null" -> IF field.allow_none THEN "None" ELSE "ValidationError"
    [] OTHER -> DeserializeValue(field.typ, raw)

\* The attribute of the record the load override builds with clazz(**loaded):
\* a key the load left out takes the dataclass default, and the constructor
\* raises TypeError when there is none.
LoadAttribute(field, raw, default) ==
  LET v == LoadField(field, raw) IN
  IF v = "absent"
    THEN IF default = "missing" THEN "TypeError" ELSE default
    ELSE v

FieldInit ==
  /\ CompilerInit
  /\ fin \in FieldInputs
  /\ fout = [NoFieldOutput EXCEPT !.stage = "declared"]
  /\ lin = NoLoadInput /\ lout = NoLoadOutput

\* class_schema synthesizes the field.
SynthesizeField ==
  /\ fout.stage = "declared"
  /\ fout' = [fout EXCEPT !.stage = "compiled",
                          !.field = FieldForSchema(fin.typ, fin.default, fin.md)]
  /\ UNCHANGED <<fin, lin, lout>>
  /\ UNCHANGED compilerVars

\* The schema loads an input in which the field's key holds fin.data.
LoadRecord ==
  /\ fout.stage = "compiled"
  /\ fout.field.kind \in {"field", "predefined"}
  /\ fout' = [fout EXCEPT !.stage = "loaded",
                          !.result = LoadAttribute(fout.field, fin.data, fin.default)]
  /\ UNCHANGED <<fin, lin, lout>>
  /\ UNCHANGED compilerVars

FieldNext == SynthesizeField \/ LoadRecord

SpecField == FieldInit /\ [][FieldNext]_vars

\* The field is declared Optional[T] with no explicit default, it is
\* synthesized from that type (the metadata supplies no field of its own),
\* and an input has been loaded.
OptionalLoaded ==
  /\ fout.stage = "loaded"
  /\ is_optional_type(fin.typ) /\ fin.default = "missing"
  /\ fin.md.marshmallow_field = "unset"

\* The metadata neither marks the field required nor sets a load_default.
PlainMetadata == fin.md.required # "true" /\ fin.md.load_default = "unset"

\* C7 as stated: a field declared Optional[T] with no explicit default loads
\* as None when the input omits it, and with allow_none=False in its
\* metadata an explicit None is a validation error while an omitted key
\* still loads as None.
C7_OptionalOmittedIsNone ==
  /\ (OptionalLoaded /\ fin.data = "omitted") => fout.result = "None"
  /\ (OptionalLoaded /\ fin.md.allow_none = "false" /\ fin.data = "null")
       => fout.result = "ValidationError"

\* C7, amended: the same for the fields whose metadata neither marks them
\* required nor sets load_default.
C7_OptionalOmittedIsNoneUnlessOverridden ==
  /\ (OptionalLoaded /\ PlainMetadata /\ fin.data = "omitted")
       => fout.result = "None"
  /\ (OptionalLoaded /\ PlainMetadata /\ fin.md.allow_none = "false"
        /\ fin.data = "null")
       => fout.result = "ValidationError"

\* An Optional field with allow_none=False in its metadata and no default was
\* loaded from an input that omits it.
C7_Witness ==
  /\ OptionalLoaded /\ PlainMetadata
  /\ fin.md.allow_none = "false" /\ fin.data = "omitted"
  /\ fout.result = "None" /\ ~fout.field.allow_none


\* C19 as stated: when the metadata names a marshmallow_field, the synthesis
\* returns that field, whatever the declared type and the default.
C19_PredefinedFieldWins ==
  (fout.stage # "declared" /\ fin.md.marshmallow_field = "custom")
    => fout.field = CustomField

\* C19, amended: the same for every declared type that is not a type
\* variable; for a type variable the synthesis raises UnboundTypeVarError
\* before it looks at the metadata.
C19_PredefinedFieldWinsUnlessTypeVar ==
  (fout.stage # "declared" /\ fin.md.marshmallow_field = "custom")
    => IF fin.typ.k = "var"
         THEN fout.field.kind = "UnboundTypeVarError"
         ELSE fout.field = CustomField

\* A field declared as a bare tuple with a default, which no other step
\* could synthesize, got the field its metadata names.
C19_Witness ==
  /\ fout.stage = "compiled"
  /\ fin.typ = Bare("tuple") /\ fin.default = "s:d"
  /\ fin.md.marshmallow_field = "custom" /\ fin.md.required = "true"
  /\ fout.field = CustomField

\* The container of a bare container type with Any for its arguments: one
\* Any for a list, a set, a frozenset and a sequence, Any for keys and values
\* of a mapping, and any number of Any for a tuple.
WithAny(typ) ==
  CASE typ.n \in {"list", "List"} -> Param("list", <<TAny>>)
    [] typ.n \in {"tuple", "Tuple"} -> Param("tuple", <<TAny, TEllipsis>>)
    [] typ.n \in {"frozenset", "FrozenSet"} -> Param("frozenset", <<TAny>>)
    [] typ.n \in {"set", "Set"} -> Param("set", <<TAny>>)
    [] typ.n \in {"abc.Sequence", "Sequence"} -> Param("abc.Sequence", <<TAny>>)
    [] typ.n \in {"dict", "Dict"} -> Param("dict", <<TAny, TAny>>)
    [] typ.n \in {"abc.Mapping", "Mapping"} -> Param("abc.Mapping", <<TAny, TAny>>)

\* C20: a field declared with a bare container type is synthesized as the
\* field of that container with Any for arguments, and not by the
\* nested-record step.
C20_BareContainerIsContainerOfAny ==
  (fout.stage # "declared" /\ fin.typ \in BareContainers)
    => /\ fout.field = FieldForSchema(WithAny(fin.typ), fin.default, fin.md)
       /\ fout.field.kind \notin {"nested", "TypeError"}


\* The options a synthesized field was constructed with: a field built over
\* other fields keeps them apart from its children.
OptionsOf(field) ==
  IF field.kind \in {"container", "nested", "union"} THEN field.opts ELSE field

\* The synthesis is over and built a field from the metadata (the metadata
\* names no field of its own and the constructor did not raise).
FieldBuilt ==
  /\ fout.stage # "declared"
  /\ fin.md.marshmallow_field = "unset"
  /\ fout.field.kind \in {"field", "container", "nested", "union"}

\* C21: with a default d the field built from the metadata dumps d by
\* default unless the metadata sets dump_default, and loads d by default
\* unless the metadata marks the field required or sets load_default; with
\* no default, required is what the metadata says, else true exactly when
\* the declared type is not optional.
C21_DefaultsFollowTheDefault ==
  FieldBuilt =>
    LET o == OptionsOf(fout.field)
        md == fin.md
    IN IF fin.default # "missing"
         THEN /\ o.dump_default =
                   (IF md.dump_default = "unset" THEN fin.default ELSE md.dump_default)
              /\ o.load_default =
                   (IF md.load_default # "unset" THEN md.load_default
                    ELSE IF md.required = "true" THEN "unset" ELSE fin.default)
         ELSE o.required =
                (IF md.required = "unset" THEN ~is_optional_type(fin.typ)
                 ELSE md.required = "true")

\* A required int field with a default and a dump_default of its own was
\* built: it dumps the metadata's value and has no load default.
C21_Witness ==
  /\ FieldBuilt /\ fin.typ = TInt
  /\ fin.default = "s:d" /\ fin.md.required = "true"
  /\ fin.md.dump_default = "None" /\ fin.md.load_default = "unset"
  /\ fout.field.dump_default = "None" /\ fout.field.load_default = "unset"


\* The arguments of a Union other than None, in the declared order.
RECURSIVE Alternatives(_)
Alternatives(args) ==
  IF args = <<>> THEN <<>>
  ELSE IF Head(args) = TNone THEN Alternatives(Tail(args))
  ELSE <<Head(args)>> \o Alternatives(Tail(args))

\* The marshmallow field class _field_for_schema uses for an alternative.
FieldClassOf(t) ==
  CASE t = TStr -> "str" [] t = TInt -> "int" [] t.k = "param" /\ t.n = "list" -> "List"

\* C22: the field built for Optional[T] is T's field, allowing None unless
\* the metadata sets allow_none and required only if the metadata says so;
\* the field built for a Union of several alternatives besides None holds
\* one (type, field) pair per such alternative, in the declared order, each
\* field being the required field of its type.
C22_UnionFields ==
  /\ (FieldBuilt /\ fin.typ.k = "opt")
       => /\ fout.field.kind = "field"
          /\ fout.field.typ = FieldClassOf(fin.typ.a[1])
          /\ fout.field.allow_none =
               (IF fin.md.allow_none = "unset" THEN TRUE ELSE fin.md.allow_none = "true")
          /\ fout.field.required = (fin.md.required = "true")
  /\ (FieldBuilt /\ fin.typ.k = "union")
       => /\ fout.field.kind = "union"
          /\ LET alts == fout.field.alts
                 want == Alternatives(fin.typ.a)
             IN /\ Len(alts) = Len(want)
                /\ \A i \in DOMAIN alts :
                     /\ alts[i].typ = want[i]
                     /\ alts[i].field.kind \in {"field", "container"}
                     /\ alts[i].field.typ = FieldClassOf(want[i])
                     /\ OptionsOf(alts[i].field).required

\* The field of Union[str, None, int] was built: two alternatives, and None
\* is allowed.
C22_Witness ==
  /\ FieldBuilt /\ fin.typ = UnionOf(<<TStr, TNone, TInt>>)
  /\ fin.md.allow_none = "unset"
  /\ Len(fout.field.alts) = 2 /\ fout.field.opts.allow_none


\* SpecAlias: the field synthesized for a NewType alias or a Final type
\* under each default and each local required, load_default and validate.
AliasTypes ==
  {IPv4, Email, Port, Req, Dflt, Strict, Opt(IPv4),
   FinalOf(<<TStr>>), FinalOf(<<Opt(TInt)>>), FinalOf(<<>>)}

AliasDefaults == {"missing", "s:d", "factory"}

AliasMetadata ==
  [required : {"unset", "true", "false"}, allow_none : {"unset"},
   load_default : {"unset", "s:m"}, dump_default : {"unset"},
   marshmallow_field : {"unset"},
   validate : {NoValidate, [form |-> "one", vs |-> <<"Local">>],
               [form |-> "seq", vs |-> <<"L1", "L2">>],
               [form |-> "other", vs |-> <<>>]},
   description : {"unset"}]

AliasInputs ==
  [typ : AliasTypes, default : AliasDefaults, data : {"omitted"},
   tm : {NoTypeMapping}, md : AliasMetadata]

AliasInit ==
  /\ CompilerInit
  /\ fin \in AliasInputs
  /\ fout = [NoFieldOutput EXCEPT !.stage = "declared"]
  /\ lin = NoLoadInput /\ lout = NoLoadOutput

AliasNext == SynthesizeField

SpecAlias == AliasInit /\ [][AliasNext]_vars

\* C24: the field built for an alias of a primitive type gets the alias's
\* options overlaid by the metadata of the field (with the defaults and the
\* required flag _field_for_schema derived into it), its validators are the
\* alias's followed by the metadata's, a single one or a whole sequence in
\* order, and its class is the alias's field class if it has one, else the
\* field class of the underlying type.
C24_AliasOptionsMerged ==
  (FieldBuilt /\ fin.typ.k = "newtype" /\ fin.typ.a[1].k = "prim")
    => LET alias == marshmallow_args(fin.typ)
           local == DefaultsAndRequired(fin.typ, fin.default, fin.md)
           opt(key) == IF local[key] # "unset" THEN local[key] ELSE alias[key]
           f == fout.field
       IN /\ f.typ = IF marshmallow_field(fin.typ) # "None"
                       THEN marshmallow_field(fin.typ)
                       ELSE FieldClassOf(fin.typ.a[1])
          /\ f.required = (opt("required") = "true")
          /\ f.load_default = opt("load_default")
          /\ f.dump_default = opt("dump_default")
          /\ f.allow_none = IF opt("allow_none") = "unset"
                              THEN opt("load_default") = "None"
                              ELSE opt("allow_none") = "true"
          /\ f.validate = Validators(alias.validate) \o Validators(fin.md.validate)
          /\ f.description = fin.typ.n

\* A field of type Port, whose alias carries two validators, with two more
\* in its own metadata.
C24_Witness ==
  /\ FieldBuilt /\ fin.typ = Port /\ fin.md.validate.form = "seq"
  /\ fout.field.typ = "int"
  /\ fout.field.validate = <<"Min", "Max", "L1", "L2">>

\* C30: the synthesis never hands a field constructor both required=True
\* and a load_default unless the metadata of the field supplied the
\* load_default itself (the constructor raises ValueError on the pair).
C30_NeverRequiredWithDerivedLoadDefault ==
  (fout.stage # "declared" /\ fin.md.load_default = "unset")
    => fout.field.kind # "ValueError"

\* SpecContainer: the field synthesized for a list, a fixed-arity tuple or
\* a mapping under each TYPE_MAPPING a base schema can carry.
MappedContainers ==
  {Param("list", <<TInt>>), Param("tuple", <<TInt, TStr>>),
   Param("dict", <<TStr, TInt>>), Param("abc.Mapping", <<TStr, TInt>>)}

ContainerInputs ==
  [typ : MappedContainers, default : {"missing"}, data : {"omitted"},
   tm : TypeMappings, md : {NoMetadata}]

ContainerInit ==
  /\ CompilerInit
  /\ fin \in ContainerInputs
  /\ fout = [NoFieldOutput EXCEPT !.stage = "declared"]
  /\ lin = NoLoadInput /\ lout = NoLoadOutput

ContainerNext == SynthesizeField

SpecContainer == ContainerInit /\ [][ContainerNext]_vars

\* The keys under which a field class for a container kind is registered.
KindKeys(origin) ==
  CASE origin = "list" -> {"list", "List"}
    [] origin = "tuple" -> {"tuple", "Tuple"}
    [] origin \in {"dict", "abc.Mapping"} -> {"Dict", "dict", "abc.Mapping", "Mapping"}

\* The default wrapper field class of a container kind.
KindDefault(origin) ==
  CASE origin = "list" -> "List"
    [] origin = "tuple" -> "Tuple"
    [] origin \in {"dict", "abc.Mapping"} -> "Dict"

\* The field classes the user registered for a container kind.
KindOverrides(tm, origin) ==
  {CustomClass(key) : key \in {k \in KindKeys(origin) : tm[k] = "custom"}}

\* C23: the wrapper field of a list, a fixed-arity tuple or a mapping is of
\* a class the base schema registers for that same container kind when it
\* registers one, and of the default class List, Tuple or Dict otherwise; a
\* class registered for another kind is never used.
C23_WrapperClassIsOfItsOwnKind ==
  (fout.stage # "declared" /\ fin.typ \in MappedContainers)
    => LET origin == get_origin(fin.typ)
           own == KindOverrides(fin.tm, origin)
       IN /\ fout.field.kind = "container"
          /\ IF own # {} THEN fout.field.typ \in own
                ELSE fout.field.typ = KindDefault(origin)

(***************************************************************************)
(* SpecLoad: the load override of _base_schema (lines 1077-1083) for the   *)
(* schema of the record M, whose one field v is an int.  An input item     *)
(* stands for the mapping {"v": raw}.                                      *)
(***************************************************************************)
\* The longest batch loaded.
MaxItems == 2

RawItems == {"s:a", "i:2", "s:2", "i:3"}

RECURSIVE SeqsUpTo(_, _)
\* The sequences over S of length at most n.
SeqsUpTo(S, n) ==
  IF n = 0 THEN {<<>>}
  ELSE LET shorter == SeqsUpTo(S, n - 1)
       IN shorter \cup {Append(q, x) : q \in shorter, x \in S}

LoadInputs ==
  {[selfMany |-> sm, many |-> m, shape |-> sh, items |-> it] :
     sm \in BOOLEAN, m \in {"None", "True", "False"},
     sh \in {"one", "list"}, it \in SeqsUpTo(RawItems, MaxItems)}

\* The inputs there are: a single mapping is one item, a batch is any list.
WellFormed(i) == i.shape = "one" => Len(i.items) = 1

\* marshmallow.Schema.load's own reading of many.
SchemaMany(many, selfMany) == IF many = "None" THEN selfMany ELSE many = "True"

\* super().load(data, many=many): the validated mapping of every item, or
\* ValidationError when the input's shape is not the one many asks for or an
\* item is invalid.
SuperLoad(i) ==
  LET m == SchemaMany(i.many, i.selfMany)
      vals == [k \in DOMAIN i.items |-> DeserializeValue("int", i.items[k])]
  IN IF m # (i.shape = "list") \/ \E k \in DOMAIN vals : vals[k] = "ValidationError"
       THEN [kind |-> "ValidationError", loaded |-> <<>>]
       ELSE [kind |-> IF m THEN "list" ELSE "one", loaded |-> vals]

EffectiveManyArgumentOnly(many, selfMany) == many = "True"

\* Line 1080: many = self.many if many is None else bool(many)
EffectiveMany(many, selfMany) == IF many = "None" THEN selfMany ELSE many = "True"

\* clazz(**loaded)
Construct(v) == [clazz |-> "M", kw |-> v]

LoadInit ==
  /\ CompilerInit
  /\ fin = NoFieldInput /\ fout = NoFieldOutput
  /\ lin \in {i \in LoadInputs : WellFormed(i)}
  /\ lout = [NoLoadOutput EXCEPT !.stage = "called"]

\* Line 1079: all_loaded = super().load(data, many=many, **kwargs)
LoadValidate ==
  LET r == SuperLoad(lin) IN
  /\ lout.stage = "called"
  /\ lout' = IF r.kind = "ValidationError"
               THEN [lout EXCEPT !.stage = "done", !.kind = "ValidationError"]
               ELSE [lout EXCEPT !.stage = "validated", !.kind = r.kind,
                                 !.loaded = r.loaded]
  /\ UNCHANGED <<fin, fout, lin>>
  /\ UNCHANGED compilerVars

\* Lines 1080-1083: one record per validated mapping for a batch, one record
\* otherwise.  Unpacking a list, or a key of a mapping, as keyword arguments
\* raises TypeError.
LoadConstruct ==
  LET many == EffectiveMany(lin.many, lin.selfMany) IN
  /\ lout.stage = "validated"
  /\ lout' =
       IF many # (lout.kind = "list")
         THEN [lout EXCEPT !.stage = "done", !.kind = "TypeError"]
         ELSE [lout EXCEPT !.stage = "done",
                 !.kind = IF many THEN "list" ELSE "record",
                 !.recs = [k \in DOMAIN lout.loaded |-> Construct(lout.loaded[k])]]
  /\ UNCHANGED <<fin, fout, lin>>
  /\ UNCHANGED compilerVars

LoadNext == LoadValidate \/ LoadConstruct

SpecLoad == LoadInit /\ [][LoadNext]_vars

\* The input is valid for the many in force: the argument, or the schema's
\* own setting when the argument is None.
BatchAsked ==
  lin.many = "True" \/ (lin.many = "None" /\ lin.selfMany)

ValidInput ==
  /\ BatchAsked <=> lin.shape = "list"
  /\ \A k \in DOMAIN lin.items : lin.items[k] \in {"i:2", "s:2", "i:3"}

\* The int an input item's value stands for.
IntOf(raw) == IF raw = "i:3" THEN "i:3" ELSE "i:2"

====
